---------------------------- MODULE Spec2Model ----------------------------
(***************************************************************************)
(* Model of cesarmlh/Automata_Celular: the two cellular automata (Conway's *)
(* Game of Life and the forest-fire model) in their two variants           *)
(*   - models.py / canvas.py / ui_main.py   (bounded neighbourhood), and   *)
(*   - celllab_mix_full.py                  (toroidal neighbourhood),      *)
(* the run-length serializer, the grid resizers and the GUI handlers that  *)
(* drive them.                                                             *)
(*                                                                         *)
(* A numpy array of shape (h, w) is the record [h, w, c] with c a function *)
(* on (0..h-1) \X (0..w-1); indices are 0-based as in the source.          *)
(* Probabilities are integers in thousandths (the spin boxes of            *)
(* celllab_mix_full.py have three decimals).                               *)
(***************************************************************************)
EXTENDS Integers, Sequences, FiniteSets, TLC

VARIABLES
    call,   \* the static function under test with its arguments
    ret,    \* what that call returned
    life,   \* the GameOfLife object (celllab_mix_full.py)
    fire,   \* the ForestFire object (celllab_mix_full.py)
    st,     \* the stats returned by the last GameOfLife.step / ForestFire.step
    draws,  \* the outcome of the random draws of the last Fire step
    win,    \* the MainWindow object (celllab_mix_full.py) with its widgets
    canvas, \* the GridCanvas object (celllab_mix_full.py)
    app,    \* the CellularAutomatonApp object (ui_main.py) with its widgets
    acanvas,\* the AutomataCanvas object (canvas.py)
    op      \* the operation that produced the current state

vars == <<call, ret, life, fire, st, draws, win, canvas, app, acanvas, op>>

----------------------------------------------------------------------------
(* Bounds of the model *)

LifeMaxCells == 9   \* Life grids have at most LifeMaxCells cells (any shape)
FireMaxCells == 4   \* Fire grids have at most FireMaxCells cells (any shape)
RleMaxCells == 12   \* serialized grids have at most RleMaxCells cells (any shape)
RleMaxRuns == 4     \* and at most RleMaxRuns runs of equal cells in row-major order
MaxBurned == 6      \* a run of Fire steps stops before burned_total passes it
MainMaxH == 2       \* MainWindow's h_spin ranges over 1 .. MainMaxH (program: 10 .. 200)
MainMaxW == 1       \* MainWindow's w_spin ranges over 1 .. MainMaxW (program: 10 .. 200)
MaxTick == 2        \* MainWindow's tick counter is followed up to MaxTick
MainMaxBurned == 2  \* MainWindow's fire.burned_total is followed up to MainMaxBurned
AppMaxDim == 3      \* in the one-step resize and insert specifications the spin boxes range over 1 .. AppMaxDim
PatMaxDim == 2      \* a pattern of the catalogue has at most PatMaxDim rows and columns
ResizeMaxCells == 9 \* a grid that is resized has at most ResizeMaxCells cells
AppMaxTick == 4     \* the app is stepped at most AppMaxTick times
DrvMaxDim == 2      \* the driven app's grid has at most DrvMaxDim rows and columns
DrvMaxTick == 2     \* the driven app steps while tick is below DrvMaxTick
RunMaxSteps == 2    \* each of two runs compared is stepped at most RunMaxSteps times
TextMaxToken == 3   \* a token of a text given to rle_decode has at most TextMaxToken characters
TextMaxDim == 2     \* a shape given to rle_decode has at most TextMaxDim rows and columns

----------------------------------------------------------------------------
(* numpy helpers *)

Max(a, b) == IF a >= b THEN a ELSE b
Min(a, b) == IF a <= b THEN a ELSE b

Cells(h, w) == (0 .. h - 1) \X (0 .. w - 1)

\* np.zeros((h, w))
Zeros(h, w) == [h |-> h, w |-> w, c |-> [p \in Cells(h, w) |-> 0]]

\* every array of shape (h, w) with entries in V
Grids(h, w, V) == { [h |-> h, w |-> w, c |-> f] : f \in [Cells(h, w) -> V] }

RECURSIVE SumOver(_, _)
\* np.sum over the cells S of array g
SumOver(g, S) ==
    IF S = {} THEN 0
    ELSE LET p == CHOOSE q \in S : TRUE
         IN  g.c[p] + SumOver(g, S \ {p})

\* Window with the rows sliced as max(0,i-1):min(rows,i+1)
Mutant_Window(g, i, j) ==
    (Max(0, i - 1) .. Min(g.h, i + 1) - 1) \X (Max(0, j - 1) .. Min(g.w, j + 2) - 1)

\* the slice g[max(0,i-1):min(rows,i+2), max(0,j-1):min(cols,j+2)]
Window(g, i, j) ==
    (Max(0, i - 1) .. Min(g.h, i + 2) - 1) \X (Max(0, j - 1) .. Min(g.w, j + 2) - 1)

\* (sum(g == v))
Count(g, v) == Cardinality({ p \in Cells(g.h, g.w) : g.c[p] = v })

----------------------------------------------------------------------------
(* models.py : LifeModel *)

\* LifeTotal with the cell itself left in the sum
Mutant_LifeTotal(grid, i, j) == SumOver(grid, Window(grid, i, j))

\* A total that depends on what ran before the step
Mutant_LifeTotalByHistory(grid, i, j) ==
    IF op = "init" THEN SumOver(grid, Window(grid, i, j))
    ELSE SumOver(grid, Window(grid, i, j)) - grid.c[<<i, j>>]

\* total = np.sum(window) - grid[i, j]
LifeTotal(grid, i, j) == SumOver(grid, Window(grid, i, j)) - grid.c[<<i, j>>]

LifeModelStep(grid) ==
    LET cell(i, j) ==
            LET total == LifeTotal(grid, i, j)
            IN  IF grid.c[<<i, j>>] = 1 /\ (total < 2 \/ total > 3) THEN 0
                ELSE IF grid.c[<<i, j>>] = 0 /\ total = 3 THEN 1
                ELSE grid.c[<<i, j>>]
    IN  [h |-> grid.h, w |-> grid.w,
         c |-> [p \in Cells(grid.h, grid.w) |-> cell(p[1], p[2])]]

\* Draws that may succeed whatever p is
Mutant_DrawMasks(S, p) == SUBSET S

\* DrawMasks with the draws compared by <= in place of <
Mutant_DrawMasksAtZero(S, p) == IF p >= 1000 THEN {S} ELSE SUBSET S

\* the outcomes of drawing np.random.random() < p (p in thousandths) once
\* for every cell of S: the set of cells where the draw succeeded
DrawMasks(S, p) ==
    IF p <= 0 THEN {{}}
    ELSE IF p >= 1000 THEN {S}
    ELSE SUBSET S

----------------------------------------------------------------------------
(* models.py : FireModel *)

DefaultPGrowth == 10        \* p_growth=0.01
DefaultPLightning == 1      \* p_lightning=0.001

\* np.any(grid[max(0,i-1):min(rows,i+2), max(0,j-1):min(cols,j+2)] == 2)
FireModelAnyBurning(grid, i, j) == \E q \in Window(grid, i, j) : grid.c[q] = 2

\* the cells where the loop evaluates np.random.random() < p_lightning
\* (the right operand of `or`): trees with no burning cell in their window
FireModelLightningDraws(grid) ==
    { p \in Cells(grid.h, grid.w) :
        grid.c[p] = 1 /\ ~FireModelAnyBurning(grid, p[1], p[2]) }

\* the cells where the loop evaluates np.random.random() < p_growth
FireModelGrowthDraws(grid) == { p \in Cells(grid.h, grid.w) : grid.c[p] = 0 }

\* lightning, grow: the cells whose draw came out below p_lightning, p_growth
FireModelStep(grid, lightning, grow) ==
    LET cell(i, j) ==
            IF grid.c[<<i, j>>] = 2 THEN 0
            ELSE IF grid.c[<<i, j>>] = 1
                 THEN IF FireModelAnyBurning(grid, i, j) \/ <<i, j>> \in lightning
                      THEN 2
                      ELSE grid.c[<<i, j>>]
            ELSE IF grid.c[<<i, j>>] = 0 /\ <<i, j>> \in grow THEN 1
            ELSE grid.c[<<i, j>>]
    IN  [h |-> grid.h, w |-> grid.w,
         c |-> [p \in Cells(grid.h, grid.w) |-> cell(p[1], p[2])]]

----------------------------------------------------------------------------
(* models.py : the two steps array by array.  arrs.grid is the array the   *)
(* caller passed, arrs.new the array made by grid.copy(); the loops visit  *)
(* the cells in row-major order, reading arrs.grid and writing arrs.new.   *)

\* A store into an array that is the caller's array itself (no copy made)
Mutant_StoreNew(arrs, p, v) == [arrs EXCEPT !.new.c[p] = v, !.grid.c[p] = v]

\* new[i, j] = v
StoreNew(arrs, p, v) == [arrs EXCEPT !.new.c[p] = v]

RECURSIVE LifeModelLoop(_, _)
\* the loops of LifeModel.step from the k-th cell on
LifeModelLoop(arrs, k) ==
    IF k >= arrs.grid.h * arrs.grid.w THEN arrs
    ELSE LET i == k \div arrs.grid.w
             j == k % arrs.grid.w
             total == LifeTotal(arrs.grid, i, j)
             v == arrs.grid.c[<<i, j>>]
         IN  LifeModelLoop(
                IF v = 1 /\ (total < 2 \/ total > 3) THEN StoreNew(arrs, <<i, j>>, 0)
                ELSE IF v = 0 /\ total = 3 THEN StoreNew(arrs, <<i, j>>, 1)
                ELSE arrs,
                k + 1)

\* LifeModel.step(grid): the caller's array and the array returned
LifeModelStepArrays(grid) == LifeModelLoop([grid |-> grid, new |-> grid], 0)

RECURSIVE FireModelLoop(_, _, _, _)
\* the loops of FireModel.step from the k-th cell on
FireModelLoop(arrs, k, lightning, grow) ==
    IF k >= arrs.grid.h * arrs.grid.w THEN arrs
    ELSE LET i == k \div arrs.grid.w
             j == k % arrs.grid.w
             v == arrs.grid.c[<<i, j>>]
         IN  FireModelLoop(
                IF v = 2 THEN StoreNew(arrs, <<i, j>>, 0)
                ELSE IF v = 1
                     THEN IF FireModelAnyBurning(arrs.grid, i, j) \/ <<i, j>> \in lightning
                          THEN StoreNew(arrs, <<i, j>>, 2)
                          ELSE arrs
                ELSE IF v = 0 /\ <<i, j>> \in grow THEN StoreNew(arrs, <<i, j>>, 1)
                ELSE arrs,
                k + 1, lightning, grow)

\* FireModel.step(grid, p_growth, p_lightning): the caller's array and the
\* array returned
FireModelStepArrays(grid, lightning, grow) ==
    FireModelLoop([grid |-> grid, new |-> grid], 0, lightning, grow)

----------------------------------------------------------------------------
(* celllab_mix_full.py : GameOfLife, ForestFire *)

Offsets == { o \in {-1, 0, 1} \X {-1, 0, 1} : ~(o[1] = 0 /\ o[2] = 0) }

\* np.roll(np.roll(g, di, axis=0), dj, axis=1)[i, j]
Roll2(g, di, dj, i, j) == g.c[<<(i - di) % g.h, (j - dj) % g.w>>]

\* SumRolls with a cell reached by several offsets counted once
Mutant_SumRolls(g, O, i, j) ==
    Cardinality({ q \in { <<(i - o[1]) % g.h, (j - o[2]) % g.w>> : o \in O } :
                    g.c[q] = 1 })

RECURSIVE SumRolls(_, _, _, _)
\* sum(np.roll(np.roll(g, di, axis=0), dj, axis=1) for (di, dj) in O)[i, j]
SumRolls(g, O, i, j) ==
    IF O = {} THEN 0
    ELSE LET o == CHOOSE x \in O : TRUE
         IN  Roll2(g, o[1], o[2], i, j) + SumRolls(g, O \ {o}, i, j)

\* GameOfLife(h, w)
NewGameOfLife(h, w) == [h |-> h, w |-> w, grid |-> Zeros(h, w)]

\* LifeBirths without the (g==0) mask
Mutant_LifeBirths(g, n) == Cardinality({ p \in Cells(g.h, g.w) : n[p] = 3 })

\* births = int(((g==0) & (n==3)).sum())
LifeBirths(g, n) ==
    Cardinality({ p \in Cells(g.h, g.w) : g.c[p] = 0 /\ n[p] = 3 })

\* deaths = int(((g==1) & ~((n==2)|(n==3))).sum())
LifeDeaths(g, n) ==
    Cardinality({ p \in Cells(g.h, g.w) :
                    g.c[p] = 1 /\ ~(n[p] = 2 \/ n[p] = 3) })

\* GameOfLife.step: the object after the call and the LifeStats returned;
\* density is the pair <<numerator, denominator>>
GameOfLifeStep(self) ==
    LET g == self.grid
        cells == Cells(g.h, g.w)
        n == [p \in cells |-> SumRolls(g, Offsets, p[1], p[2])]
        births == LifeBirths(g, n)
        deaths == LifeDeaths(g, n)
        newg == [h |-> g.h, w |-> g.w,
                 c |-> [p \in cells |->
                          IF \/ (g.c[p] = 1 /\ (n[p] = 2 \/ n[p] = 3))
                             \/ (g.c[p] = 0 /\ n[p] = 3)
                          THEN 1 ELSE 0]]
        alive == SumOver(newg, cells)
    IN  [self |-> [self EXCEPT !.grid = newg],
         st |-> [alive |-> alive, births |-> births, deaths |-> deaths,
                 density |-> <<alive, self.h * self.w>>]]

\* ForestFire(h, w, p_growth, p_lightning)
NewForestFire(h, w, p_growth, p_lightning) ==
    [h |-> h, w |-> w, p_growth |-> p_growth, p_lightning |-> p_lightning,
     grid |-> Zeros(h, w), burned_total |-> 0]

\* NeighborFire over the four orthogonal offsets only
Mutant_NeighborFire(g) ==
    { p \in Cells(g.h, g.w) :
        \E o \in { x \in Offsets : x[1] = 0 \/ x[2] = 0 } :
            Roll2(g, o[1], o[2], p[1], p[2]) = 2 }

\* neighbor_fire after the loop over (di, dj)
NeighborFire(g) ==
    { p \in Cells(g.h, g.w) :
        \E o \in Offsets : Roll2(g, o[1], o[2], p[1], p[2]) = 2 }

\* BurnedAfter with `=` in place of `+=`
Mutant_BurnedAfter(self, to_fire) == Cardinality(to_fire)

\* self.burned_total += int(to_fire.sum())
BurnedAfter(self, to_fire) == self.burned_total + Cardinality(to_fire)

\* FireStatsOf with the trees counted as every non-empty cell
Mutant_FireStatsOf(newg, burned_total, total) ==
    LET burning == Count(newg, 2)
        trees_now == Count(newg, 1) + Count(newg, 2)
        empty_now == Count(newg, 0)
    IN  [empty |-> empty_now, trees |-> trees_now, burning |-> burning,
         burned_total |-> burned_total,
         forest_pct |-> <<trees_now, total>>,
         burning_pct |-> <<burning, total>>]

\* FireStats(empty=..., trees=..., burning=..., burned_total=..., ...)
FireStatsOf(newg, burned_total, total) ==
    LET burning == Count(newg, 2)
        trees_now == Count(newg, 1)
        empty_now == Count(newg, 0)
    IN  [empty |-> empty_now, trees |-> trees_now, burning |-> burning,
         burned_total |-> burned_total,
         forest_pct |-> <<trees_now, total>>,
         burning_pct |-> <<burning, total>>]

\* ForestFire.step: the object after the call and the FireStats returned;
\* lightning, grow: the cells where np.random.rand(h, w) came out below
\* p_lightning, p_growth; the percentages are pairs <<numerator, denominator>>
ForestFireStep(self, lightning, grow) ==
    LET g == self.grid
        cells == Cells(g.h, g.w)
        neighbor_fire == NeighborFire(g)
        new1 == [p \in cells |-> IF g.c[p] = 2 THEN 0 ELSE g.c[p]]
        trees == { p \in cells : g.c[p] = 1 }
        to_fire == trees \cap (neighbor_fire \cup lightning)
        new2 == [p \in cells |-> IF p \in to_fire THEN 2 ELSE new1[p]]
        empty == { p \in cells : g.c[p] = 0 }
        new3 == [p \in cells |-> IF p \in empty \cap grow THEN 1 ELSE new2[p]]
        newg == [h |-> g.h, w |-> g.w, c |-> new3]
        burned_total == BurnedAfter(self, to_fire)
        total == self.h * self.w
    IN  [self |-> [self EXCEPT !.burned_total = burned_total, !.grid = newg],
         st |-> FireStatsOf(newg, burned_total, total)]

----------------------------------------------------------------------------
(* celllab_mix_full.py : GridCanvas, MainWindow                            *)
(*                                                                         *)
(* canvas.ref tells which array GridCanvas._grid_ref is: "life" when it is *)
(* the very array self.life.grid, "fire" when it is self.fire.grid, and    *)
(* "stale" when it is an array no simulation holds any more (the contents  *)
(* of such an array are not part of the state).                            *)

\* ResizeInto dropping the last row of the overlap
Mutant_ResizeInto(old, h, w) ==
    [h |-> h, w |-> w,
     c |-> [p \in Cells(h, w) |->
              IF p[1] < Min(h, old.h) - 1 /\ p[2] < Min(w, old.w)
              THEN old.c[p] ELSE 0]]

\* newg = np.zeros((h,w)); newg[:min(h,hh), :min(w,ww)] = old[:min(h,hh), :min(w,ww)]
ResizeInto(old, h, w) ==
    [h |-> h, w |-> w,
     c |-> [p \in Cells(h, w) |->
              IF p[1] < Min(h, old.h) /\ p[2] < Min(w, old.w)
              THEN old.c[p] ELSE 0]]

\* the array after GridCanvas._toggle_cell / AutomataCanvas._toggle at (i, j)
ToggleCell(grid, model_name, i, j) ==
    IF 0 <= i /\ i < grid.h /\ 0 <= j /\ j < grid.w
    THEN IF model_name = "life"
         THEN [grid EXCEPT !.c[<<i, j>>] = 1 - grid.c[<<i, j>>]]
         ELSE [grid EXCEPT !.c[<<i, j>>] = (grid.c[<<i, j>>] + 1) % 3]
    ELSE grid

\* MainWindow.__init__ with a grid of h rows and w columns
NewMainWindow(h, w) ==
    [model_name |-> "life", grid_w |-> w, grid_h |-> h, tick |-> 0,
     timer |-> FALSE, p_growth |-> DefaultPGrowth, p_light |-> DefaultPLightning]

\* GridCanvas() followed by set_grid(self.life.grid, "life")
NewGridCanvas == [ref |-> "life", model_name |-> "life"]

\* GridCanvas.set_grid(grid, model_name), `which` naming the array passed
SetGrid(which, model_name) == [ref |-> which, model_name |-> model_name]

\* the canvas after a simulation rebinds its grid attribute to a new array
Rebound(cv, which) == IF cv.ref = which THEN [cv EXCEPT !.ref = "stale"] ELSE cv

\* MainWindow.on_model_change(name) on the window state s, a record of the
\* window's fields, its two simulations and its canvas
OnModelChange(s, name) ==
    [s EXCEPT !.win = [s.win EXCEPT !.model_name = name, !.tick = 0],
              !.canvas = SetGrid(name, name)]

\* MainWindow.on_resize_grid with the spin boxes at (h, w)
OnResizeGrid(s, h, w) ==
    LET wn == [s.win EXCEPT !.grid_w = w, !.grid_h = h, !.tick = 0]
    IN  IF s.win.model_name = "life"
        THEN [s EXCEPT !.win = wn,
                       !.life = [NewGameOfLife(h, w) EXCEPT
                                   !.grid = ResizeInto(s.life.grid, h, w)],
                       !.canvas = SetGrid("life", "life")]
        ELSE [s EXCEPT !.win = wn,
                       !.fire = [NewForestFire(h, w, s.win.p_growth, s.win.p_light)
                                   EXCEPT !.grid = ResizeInto(s.fire.grid, h, w)],
                       !.canvas = SetGrid("fire", "fire")]

\* MainWindow.on_fire_params
OnFireParams(s) ==
    IF s.win.model_name = "fire"
    THEN [s EXCEPT !.fire = [s.fire EXCEPT !.p_growth = s.win.p_growth,
                                           !.p_lightning = s.win.p_light]]
    ELSE s

\* QSpinBox.setValue / QDoubleSpinBox.setValue keep the value inside the range
Clamp(v, lo, hi) == Max(lo, Min(hi, v))

\* model_combo.setCurrentText(name): currentTextChanged fires on a change only
SetModelCombo(s, name) ==
    IF name = s.win.model_name THEN s ELSE OnModelChange(s, name)

\* w_spin.setValue(w) and h_spin.setValue(h): valueChanged fires on a change only
SetWSpin(s, w) ==
    LET v == Clamp(w, 1, MainMaxW)
    IN  IF v = s.win.grid_w THEN s ELSE OnResizeGrid(s, s.win.grid_h, v)

SetHSpin(s, h) ==
    LET v == Clamp(h, 1, MainMaxH)
    IN  IF v = s.win.grid_h THEN s ELSE OnResizeGrid(s, v, s.win.grid_w)

\* p_growth.setValue(p) and p_light.setValue(p)
SetPGrowthSpin(s, p) ==
    LET v == Clamp(p, 0, 1000)
    IN  IF v = s.win.p_growth THEN s
        ELSE OnFireParams([s EXCEPT !.win.p_growth = v])

SetPLightSpin(s, p) ==
    LET v == Clamp(p, 0, 1000)
    IN  IF v = s.win.p_light THEN s
        ELSE OnFireParams([s EXCEPT !.win.p_light = v])

\* An on_clear that leaves the timer and burned_total alone
Mutant_OnClear(s) ==
    LET wn == [s.win EXCEPT !.tick = 0]
    IN  IF s.win.model_name = "life"
        THEN [s EXCEPT !.win = wn,
                       !.life.grid = Zeros(s.life.grid.h, s.life.grid.w)]
        ELSE [s EXCEPT !.win = wn,
                       !.fire.grid = Zeros(s.fire.grid.h, s.fire.grid.w)]

\* MainWindow.on_clear
OnClear(s) ==
    LET wn == [s.win EXCEPT !.timer = FALSE, !.tick = 0]
    IN  IF s.win.model_name = "life"
        THEN [s EXCEPT !.win = wn,
                       !.life.grid = Zeros(s.life.grid.h, s.life.grid.w)]
        ELSE [s EXCEPT !.win = wn,
                       !.fire.grid = Zeros(s.fire.grid.h, s.fire.grid.w),
                       !.fire.burned_total = 0]

\* MainWindow.on_random, g being the array the randomize call draws
OnRandom(s, g) ==
    LET wn == [s.win EXCEPT !.tick = 0]
    IN  IF s.win.model_name = "life"
        THEN [s EXCEPT !.win = wn, !.life.grid = g,
                       !.canvas = Rebound(s.canvas, "life")]
        ELSE [s EXCEPT !.win = wn, !.fire.grid = g, !.fire.burned_total = 0,
                       !.canvas = Rebound(s.canvas, "fire")]

\* the arrays GameOfLife.randomize / ForestFire.randomize can draw
RandomGrids(s) ==
    IF s.win.model_name = "life"
    THEN Grids(s.life.h, s.life.w, {0, 1})
    ELSE Grids(s.fire.h, s.fire.w, {0, 1, 2})

\* GridCanvas._toggle_cell for an event over row i, column j
MouseEdit(s, i, j) ==
    CASE s.canvas.ref = "life" ->
           [s EXCEPT !.life.grid = ToggleCell(s.life.grid, s.canvas.model_name, i, j)]
      [] s.canvas.ref = "fire" ->
           [s EXCEPT !.fire.grid = ToggleCell(s.fire.grid, s.canvas.model_name, i, j)]
      [] OTHER -> s

----------------------------------------------------------------------------
(* canvas.py : AutomataCanvas;  ui_main.py : CellularAutomatonApp          *)

\* AutomataCanvas(rows, cols, cell_size, model)
NewAutomataCanvas(rows, cols, model) ==
    [rows |-> rows, cols |-> cols, model |-> model, grid |-> Zeros(rows, cols)]

\* CellularAutomatonApp.__init__ with a grid of rows x cols
NewApp(rows, cols) ==
    [rows |-> rows, cols |-> cols, model |-> "life", tick |-> 0,
     timer |-> FALSE, pattern_box |-> "Ninguno"]

\* AutomataCanvas.set_grid_shape(rows, cols): the canvas after it
SetGridShape(cv, rows, cols) ==
    LET hh == Min(rows, cv.rows)
        ww == Min(cols, cv.cols)
        new == [h |-> rows, w |-> cols,
                c |-> [p \in Cells(rows, cols) |->
                         IF p[1] < hh /\ p[2] < ww THEN cv.grid.c[p] ELSE 0]]
    IN  [cv EXCEPT !.grid = new, !.rows = rows, !.cols = cols]

\* How a call set_grid_shape(rows, cols) with any integers ends:
\* np.zeros((rows, cols)) raises ValueError for a negative dimension, before
\* anything is assigned; every other target, 0 included, is taken
SetGridShapeCall(cv, rows, cols) ==
    IF rows < 0 \/ cols < 0
    THEN [acanvas |-> cv, ret |-> [ok |-> FALSE, err |-> "ValueError"]]
    ELSE [acanvas |-> SetGridShape(cv, rows, cols), ret |-> [none |-> TRUE]]

\* ZeroFill leaving the array as it is
Mutant_ZeroFill(grid) == grid

\* self.canvas.grid[:] = 0
ZeroFill(grid) == [grid EXCEPT !.c = [p \in DOMAIN grid.c |-> 0]]

\* Cleared keeping the tick counter
Mutant_Cleared(a, cv) ==
    [app |-> a, acanvas |-> [cv EXCEPT !.grid = ZeroFill(cv.grid)]]

\* CellularAutomatonApp.clear: the app and the canvas after it
Cleared(a, cv) ==
    [app |-> [a EXCEPT !.tick = 0], acanvas |-> [cv EXCEPT !.grid = ZeroFill(cv.grid)]]

\* CellularAutomatonApp.resize_grid with the spin boxes at (rows, cols)
ResizeGrid(a, cv, rows, cols) ==
    [app |-> [a EXCEPT !.rows = rows, !.cols = cols, !.tick = 0],
     acanvas |-> SetGridShape(cv, rows, cols)]

\* a bound k of a Python slice over an axis of length n
SliceIndex(k, n) == IF k < 0 THEN Max(k + n, 0) ELSE Min(k, n)

\* the indices a[lo:hi] selects on an axis of length n
SliceRange(lo, hi, n) == SliceIndex(lo, n) .. (SliceIndex(hi, n) - 1)

\* An assignment that clips silently: the part of p that lands in the slice
Mutant_SliceAssign(grid, mr, mc, p) ==
    LET rows == SliceRange(mr, mr + p.h, grid.h)
        cols == SliceRange(mc, mc + p.w, grid.w)
        r0 == SliceIndex(mr, grid.h)
        c0 == SliceIndex(mc, grid.w)
    IN  [ok |-> TRUE,
         grid |-> [grid EXCEPT !.c =
            [q \in DOMAIN grid.c |->
               IF q[1] \in rows /\ q[2] \in cols
                  /\ q[1] - r0 < p.h /\ q[2] - c0 < p.w
               THEN p.c[<<q[1] - r0, q[2] - c0>>]
               ELSE grid.c[q]]]]

\* grid[mr:mr + r, mc:mc + c] = p with numpy's broadcasting: the array after
\* the assignment, or ValueError when p cannot be broadcast to the slice
SliceAssign(grid, mr, mc, p) ==
    LET rows == SliceRange(mr, mr + p.h, grid.h)
        cols == SliceRange(mc, mc + p.w, grid.w)
        r0 == SliceIndex(mr, grid.h)
        c0 == SliceIndex(mc, grid.w)
        fits == /\ (p.h = Cardinality(rows) \/ p.h = 1)
                /\ (p.w = Cardinality(cols) \/ p.w = 1)
    IN  IF fits
        THEN [ok |-> TRUE,
              grid |-> [grid EXCEPT !.c =
                 [q \in DOMAIN grid.c |->
                    IF q[1] \in rows /\ q[2] \in cols
                    THEN p.c[<<IF p.h = 1 THEN 0 ELSE q[1] - r0,
                               IF p.w = 1 THEN 0 ELSE q[2] - c0>>]
                    ELSE grid.c[q]]]]
        ELSE [ok |-> FALSE, err |-> "ValueError"]

\* An insert that anchors the pattern at the top-left corner of the grid
Mutant_InsertPattern(a, cv, name, p) ==
    LET c == Cleared([a EXCEPT !.pattern_box = name], cv)
    IN  IF a.model # "life" \/ name = "Ninguno" \/ p = [none |-> TRUE]
        THEN [app |-> c.app, acanvas |-> c.acanvas, ret |-> [none |-> TRUE]]
        ELSE LET g == SliceAssign(c.acanvas.grid, 0, 0, p)
             IN  IF g.ok
                 THEN [app |-> c.app,
                       acanvas |-> [c.acanvas EXCEPT !.grid = g.grid],
                       ret |-> [none |-> TRUE]]
                 ELSE [app |-> c.app, acanvas |-> c.acanvas,
                       ret |-> [ok |-> FALSE, err |-> g.err]]

\* CellularAutomatonApp.insert_pattern(name), p being PATTERNS.get(name):
\* the app and the canvas after it, and how the call ended
InsertPattern(a, cv, name, p) ==
    LET c == Cleared([a EXCEPT !.pattern_box = name], cv)
    IN  IF a.model # "life" \/ name = "Ninguno" \/ p = [none |-> TRUE]
        THEN [app |-> c.app, acanvas |-> c.acanvas, ret |-> [none |-> TRUE]]
        ELSE LET mr == (a.rows \div 2) - (p.h \div 2)
                 mc == (a.cols \div 2) - (p.w \div 2)
                 g == SliceAssign(c.acanvas.grid, mr, mc, p)
             IN  IF g.ok
                 THEN [app |-> c.app,
                       acanvas |-> [c.acanvas EXCEPT !.grid = g.grid],
                       ret |-> [none |-> TRUE]]
                 ELSE [app |-> c.app, acanvas |-> c.acanvas,
                       ret |-> [ok |-> FALSE, err |-> g.err]]

\* CellularAutomatonApp.update_grid, the draws of FireModel.step being
\* lightning and grow: the app and the canvas after it
UpdateGrid(a, cv, lightning, grow) ==
    LET grid == cv.grid
        new == IF a.model = "life" THEN LifeModelStep(grid)
               ELSE FireModelStep(grid, lightning, grow)
    IN  [app |-> [a EXCEPT !.tick = a.tick + 1],
         acanvas |-> [cv EXCEPT !.grid = new]]

\* the draws update_grid's FireModel.step(grid) can make: p_growth and
\* p_lightning are the defaults
UpdateGridDraws(a, cv) ==
    IF a.model = "life" THEN {[lightning |-> {}, grow |-> {}]}
    ELSE { [lightning |-> l, grow |-> g] :
             l \in DrawMasks(FireModelLightningDraws(cv.grid), DefaultPLightning),
             g \in DrawMasks(FireModelGrowthDraws(cv.grid), DefaultPGrowth) }

\* CellularAutomatonApp.randomize, np.random.choice having produced g
Randomize(a, cv, g) ==
    [app |-> [a EXCEPT !.tick = 0], acanvas |-> [cv EXCEPT !.grid = g]]

\* the arrays np.random.choice can produce in randomize: each value of the
\* model's list has a positive probability
RandomizeGrids(a) ==
    Grids(a.rows, a.cols, IF a.model = "life" THEN {0, 1} ELSE {0, 1, 2})

\* A model change that keeps the cells
Mutant_ChangeModel(a, cv, m) ==
    [app |-> [a EXCEPT !.model = m], acanvas |-> [cv EXCEPT !.model = m]]

\* CellularAutomatonApp.change_model(m)
ChangeModel(a, cv, m) == Cleared([a EXCEPT !.model = m], [cv EXCEPT !.model = m])

\* Toggle advancing a Fire cell by two
Mutant_Toggle(cv, r, c) ==
    IF 0 <= r /\ r < cv.rows /\ 0 <= c /\ c < cv.cols
    THEN IF cv.model = "life"
         THEN [cv EXCEPT !.grid.c[<<r, c>>] = 1 - cv.grid.c[<<r, c>>]]
         ELSE [cv EXCEPT !.grid.c[<<r, c>>] = (cv.grid.c[<<r, c>>] + 2) % 3]
    ELSE cv

\* AutomataCanvas._toggle for an event over the cell (r, c)
Toggle(cv, r, c) ==
    IF 0 <= r /\ r < cv.rows /\ 0 <= c /\ c < cv.cols
    THEN IF cv.model = "life"
         THEN [cv EXCEPT !.grid.c[<<r, c>>] = 1 - cv.grid.c[<<r, c>>]]
         ELSE [cv EXCEPT !.grid.c[<<r, c>>] = (cv.grid.c[<<r, c>>] + 1) % 3]
    ELSE cv

----------------------------------------------------------------------------
(* patterns.py is not among the sources: the catalogue PATTERNS is         *)
(* modelled from the specification, which names the shapes (Glider,        *)
(* Blinker, Toad, Beacon, Pulsar) and calls them small boolean matrices.   *)
(* A lookup PATTERNS.get(name) is any boolean matrix of at most PatMaxDim  *)
(* rows and columns.                                                       *)

PatternNames == {"Glider", "Blinker", "Toad", "Beacon", "Pulsar"}

PatternMatrices ==
    UNION { Grids(r, c, {0, 1}) : r \in 1 .. PatMaxDim, c \in 1 .. PatMaxDim }

----------------------------------------------------------------------------
(* celllab_mix_full.py : rle_encode, rle_decode                            *)
(* A Python str is a sequence of one-character strings.                    *)

DigitChars == <<"0", "1", "2", "3", "4", "5", "6", "7", "8", "9">>

\* Decimal keeping the last digit only
Mutant_Decimal(n) == <<DigitChars[(n % 10) + 1]>>

RECURSIVE Decimal(_)
\* f"{n}" for an int n >= 0
Decimal(n) ==
    IF n < 10 THEN <<DigitChars[n + 1]>>
    ELSE Decimal(n \div 10) \o <<DigitChars[(n % 10) + 1]>>

DigitValue(ch) == (CHOOSE d \in 1 .. 10 : DigitChars[d] = ch) - 1

IsDigits(t) ==
    /\ Len(t) >= 1
    /\ \A k \in 1 .. Len(t) : \E d \in 1 .. 10 : DigitChars[d] = t[k]

RECURSIVE ParseDigits(_)
\* int(t) for a non-empty string of decimal digits
ParseDigits(t) ==
    IF Len(t) = 1 THEN DigitValue(t[1])
    ELSE 10 * ParseDigits(SubSeq(t, 1, Len(t) - 1)) + DigitValue(t[Len(t)])

\* a string int() accepts: decimal digits after an optional sign (the
\* strings here hold no blanks and no underscores)
IsIntLiteral(t) ==
    \/ IsDigits(t)
    \/ Len(t) >= 2 /\ t[1] \in {"-", "+"} /\ IsDigits(Tail(t))

\* int(t) for such a string
ParseInt(t) ==
    IF t[1] = "-" THEN 0 - ParseDigits(Tail(t))
    ELSE IF t[1] = "+" THEN ParseDigits(Tail(t))
    ELSE ParseDigits(t)

RECURSIVE Split(_, _)
\* s.split(sep) for a one-character separator
Split(s, sep) ==
    IF \A k \in 1 .. Len(s) : s[k] # sep THEN <<s>>
    ELSE LET k == CHOOSE i \in 1 .. Len(s) :
                     s[i] = sep /\ \A j \in 1 .. i - 1 : s[j] # sep
         IN  <<SubSeq(s, 1, k - 1)>> \o Split(SubSeq(s, k + 1, Len(s)), sep)

RECURSIVE Join(_, _)
\* sep.join(parts)
Join(parts, sep) ==
    IF Len(parts) = 0 THEN <<>>
    ELSE IF Len(parts) = 1 THEN parts[1]
    ELSE parts[1] \o <<sep>> \o Join(Tail(parts), sep)

\* The cells in column-major order
Mutant_Flatten(arr) ==
    [k \in 1 .. arr.h * arr.w |-> arr.c[<<(k - 1) % arr.h, (k - 1) \div arr.h>>]]

\* arr.flatten(): the cells in row-major order
Flatten(arr) ==
    [k \in 1 .. arr.h * arr.w |-> arr.c[<<(k - 1) \div arr.w, (k - 1) % arr.w>>]]

\* f"{int(last)}:{count}"
RleToken(last, count) == Decimal(last) \o <<":">> \o Decimal(count)

RECURSIVE RleRuns(_, _, _, _, _)
\* the loop `for v in flat[1:]` from position k on, with the running
\* last / count and the tokens appended so far; then the final append
RleRuns(flat, k, last, count, out) ==
    IF k > Len(flat) THEN Append(out, RleToken(last, count))
    ELSE IF flat[k] = last THEN RleRuns(flat, k + 1, last, count + 1, out)
    ELSE RleRuns(flat, k + 1, flat[k], 1, Append(out, RleToken(last, count)))

RleEncode(arr) ==
    LET flat == Flatten(arr)
    IN  IF Len(flat) = 0 THEN <<>>
        ELSE Join(RleRuns(flat, 2, flat[1], 1, <<>>), ";")

ValueError == [ok |-> FALSE, err |-> "ValueError"]

RECURSIVE Repeat(_, _)
\* [v] * c
Repeat(v, c) == IF c <= 0 THEN <<>> ELSE <<v>> \o Repeat(v, c - 1)

RECURSIVE RleVals(_, _)
\* vals after the loop over the tokens from the k-th on, or ValueError when
\* a token does not unpack into two parts or a part is not an int literal
RleVals(tokens, k) ==
    IF k > Len(tokens) THEN [ok |-> TRUE, vals |-> <<>>]
    ELSE LET parts == Split(tokens[k], ":")
         IN  IF Len(parts) # 2 THEN ValueError
             ELSE IF ~IsIntLiteral(parts[1]) \/ ~IsIntLiteral(parts[2]) THEN ValueError
             ELSE LET rest == RleVals(tokens, k + 1)
                  IN  IF ~rest.ok THEN ValueError
                      ELSE [ok |-> TRUE,
                            vals |-> Repeat(ParseInt(parts[1]),
                                            ParseInt(parts[2])) \o rest.vals]

\* A reshape that never fails: missing cells are 0, surplus values dropped
Mutant_Reshape(vals, h, w) ==
    [ok |-> TRUE,
     grid |-> [h |-> h, w |-> w,
               c |-> [p \in Cells(h, w) |->
                        IF p[1] * w + p[2] + 1 <= Len(vals)
                        THEN vals[p[1] * w + p[2] + 1] ELSE 0]]]

\* arr.reshape(shape), row-major
Reshape(vals, h, w) ==
    IF Len(vals) # h * w THEN ValueError
    ELSE [ok |-> TRUE,
          grid |-> [h |-> h, w |-> w,
                    c |-> [p \in Cells(h, w) |-> vals[p[1] * w + p[2] + 1]]]]

\* A decoder without the branch for the empty string
Mutant_RleDecode(s, h, w) ==
    LET r == RleVals(Split(s, ";"), 1)
    IN  IF ~r.ok THEN ValueError ELSE Reshape(r.vals, h, w)

\* rle_decode(s, (h, w)) when every value fits an int8
RleDecode(s, h, w) ==
    IF Len(s) = 0 THEN [ok |-> TRUE, grid |-> Zeros(h, w)]
    ELSE LET r == RleVals(Split(s, ";"), 1)
         IN  IF ~r.ok THEN ValueError ELSE Reshape(r.vals, h, w)

Int8 == -128 .. 127

\* the int8 a value outside Int8 wraps to
Int8Wrap(v) == ((v + 128) % 256) - 128

OverflowError == [ok |-> FALSE, err |-> "OverflowError"]

\* How rle_decode(s, (h, w)) can end.  np.array(vals, dtype=np.int8) with a
\* value outside Int8 raises OverflowError or wraps the value, depending on
\* the numpy release: both outcomes are kept.
RleDecodeOutcomes(s, h, w) ==
    LET r == IF Len(s) = 0 THEN ValueError ELSE RleVals(Split(s, ";"), 1)
    IN  IF Len(s) = 0 \/ ~r.ok
           \/ \A k \in 1 .. Len(r.vals) : r.vals[k] \in Int8
        THEN {RleDecode(s, h, w)}
        ELSE {OverflowError,
              Reshape([k \in 1 .. Len(r.vals) |-> Int8Wrap(r.vals[k])], h, w)}

----------------------------------------------------------------------------
(* Values shared by the specifications *)

None == [none |-> TRUE]
NoCall == [fn |-> "none"]

\* probabilities tried for p_growth and p_lightning: 0.0, 0.010 and 1.0
PValues == {0, DefaultPGrowth, 1000}

LifeShapes ==
    { s \in (1 .. LifeMaxCells) \X (1 .. LifeMaxCells) : s[1] * s[2] <= LifeMaxCells }
LifeGrids == UNION { Grids(s[1], s[2], {0, 1}) : s \in LifeShapes }

FireShapes ==
    { s \in (1 .. FireMaxCells) \X (1 .. FireMaxCells) : s[1] * s[2] <= FireMaxCells }
FireGrids == UNION { Grids(s[1], s[2], {0, 1, 2}) : s \in FireShapes }

\* the objects a specification does not use stay as constructed
IdleCall == call = NoCall /\ ret = None
IdleLife == life = NewGameOfLife(1, 1)
IdleFire == fire = NewForestFire(1, 1, DefaultPGrowth, DefaultPLightning)
IdleStats == st = None /\ draws = None
IdleMain == win = NewMainWindow(1, 1) /\ canvas = NewGridCanvas
IdleApp == app = NewApp(1, 1) /\ acanvas = NewAutomataCanvas(1, 1, "life")

----------------------------------------------------------------------------
(* Specification SpecLife: LifeModel.step applied once to every Life grid, *)
(* and GameOfLife.step applied repeatedly from every Life grid             *)

InitLifeModel ==
    /\ call \in { [fn |-> "LifeModel.step", grid |-> g] : g \in LifeGrids }
    /\ ret = None
    /\ IdleLife /\ IdleFire /\ IdleStats /\ IdleMain /\ IdleApp
    /\ op = "init"

InitGameOfLife ==
    /\ life \in { [h |-> g.h, w |-> g.w, grid |-> g] : g \in LifeGrids }
    /\ IdleCall /\ IdleFire /\ IdleStats /\ IdleMain /\ IdleApp
    /\ op = "init"

InitLife == InitLifeModel \/ InitGameOfLife

\* new = LifeModel.step(grid)
CallLifeModelStep ==
    /\ op = "init"
    /\ call.fn = "LifeModel.step"
    /\ ret' = LifeModelStep(call.grid)
    /\ op' = "LifeModel.step"
    /\ UNCHANGED <<call, life, fire, st, draws, win, canvas, app, acanvas>>

\* st = self.life.step()
StepGameOfLife ==
    /\ call.fn = "none"
    /\ LET r == GameOfLifeStep(life)
       IN  /\ life' = r.self
           /\ st' = r.st
    /\ op' = "GameOfLife.step"
    /\ UNCHANGED <<call, ret, fire, draws, win, canvas, app, acanvas>>

NextLife == CallLifeModelStep \/ StepGameOfLife

SpecLife == InitLife /\ [][NextLife]_vars

----------------------------------------------------------------------------
(* Specification SpecFire: one Fire step, FireModel.step or                *)
(* ForestFire.step, from every Fire grid, with the draws it made recorded  *)

InitFireModel ==
    /\ call \in { [fn |-> "FireModel.step", grid |-> g,
                   p_growth |-> pg, p_lightning |-> pl] :
                  g \in FireGrids, pg \in PValues, pl \in PValues }
    /\ ret = None
    /\ IdleLife /\ IdleFire /\ IdleStats /\ IdleMain /\ IdleApp
    /\ op = "init"

ForestFires ==
    { [h |-> g.h, w |-> g.w, p_growth |-> pg, p_lightning |-> pl,
       grid |-> g, burned_total |-> 0] :
      g \in FireGrids, pg \in PValues, pl \in PValues }

InitForestFire ==
    /\ fire \in ForestFires
    /\ IdleCall /\ IdleLife /\ IdleStats /\ IdleMain /\ IdleApp
    /\ op = "init"

InitFire == InitFireModel \/ InitForestFire

\* new = FireModel.step(grid, p_growth, p_lightning)
CallFireModelStep ==
    /\ op = "init"
    /\ call.fn = "FireModel.step"
    /\ \E lightning \in DrawMasks(FireModelLightningDraws(call.grid), call.p_lightning),
          grow \in DrawMasks(FireModelGrowthDraws(call.grid), call.p_growth) :
            /\ ret' = FireModelStep(call.grid, lightning, grow)
            /\ draws' = [lightning |-> lightning, grow |-> grow]
    /\ op' = "FireModel.step"
    /\ UNCHANGED <<call, life, fire, st, win, canvas, app, acanvas>>

\* st = self.fire.step(), the two np.random.rand(h, w) arrays recorded
StepForestFireOnce ==
    /\ op = "init"
    /\ call.fn = "none"
    /\ \E lightning \in DrawMasks(Cells(fire.h, fire.w), fire.p_lightning),
          grow \in DrawMasks(Cells(fire.h, fire.w), fire.p_growth) :
            LET r == ForestFireStep(fire, lightning, grow)
            IN  /\ fire' = r.self
                /\ st' = r.st
                /\ draws' = [lightning |-> lightning, grow |-> grow]
    /\ op' = "ForestFire.step"
    /\ UNCHANGED <<call, ret, life, win, canvas, app, acanvas>>

NextFire == CallFireModelStep \/ StepForestFireOnce

SpecFire == InitFire /\ [][NextFire]_vars

----------------------------------------------------------------------------
(* Specification SpecStepArrays: LifeModel.step and FireModel.step called  *)
(* once on every grid, the caller's array followed through the call.       *)

\* new = LifeModel.step(grid); call keeps the caller's array as the call
\* left it
CallLifeModelStepArrays ==
    /\ op = "init"
    /\ call.fn = "LifeModel.step"
    /\ LET r == LifeModelStepArrays(call.grid)
       IN  /\ ret' = r.new
           /\ call' = [call EXCEPT !.grid = r.grid]
    /\ op' = "LifeModel.step"
    /\ UNCHANGED <<life, fire, st, draws, win, canvas, app, acanvas>>

\* new = FireModel.step(grid, p_growth, p_lightning)
CallFireModelStepArrays ==
    /\ op = "init"
    /\ call.fn = "FireModel.step"
    /\ \E lightning \in DrawMasks(FireModelLightningDraws(call.grid), call.p_lightning),
          grow \in DrawMasks(FireModelGrowthDraws(call.grid), call.p_growth) :
            LET r == FireModelStepArrays(call.grid, lightning, grow)
            IN  /\ ret' = r.new
                /\ call' = [call EXCEPT !.grid = r.grid]
                /\ draws' = [lightning |-> lightning, grow |-> grow]
    /\ op' = "FireModel.step"
    /\ UNCHANGED <<life, fire, st, win, canvas, app, acanvas>>

SpecStepArrays ==
    (InitLifeModel \/ InitFireModel)
       /\ [][CallLifeModelStepArrays \/ CallFireModelStepArrays]_vars

----------------------------------------------------------------------------
(* Specification SpecToroidal: GameOfLife.step repeated from every Life    *)
(* grid and one ForestFire.step from every Fire grid                       *)

InitToroidal == InitGameOfLife \/ InitForestFire

NextToroidal == (IdleFire /\ StepGameOfLife) \/ StepForestFireOnce

SpecToroidal == InitToroidal /\ [][NextToroidal]_vars

----------------------------------------------------------------------------
(* Specification SpecTwoRules: LifeModel.step and GameOfLife.step applied  *)
(* to one and the same grid, the grids being every small Life grid and     *)
(* every larger one whose first and last rows and columns are all DEAD     *)

BorderMaxCells == 25

\* the cells of an h x w grid that are not in its first or last row or column
Interior(h, w) == (1 .. h - 2) \X (1 .. w - 2)

\* the h x w Life grids whose cells outside the interior are all DEAD
DeadBorderGrids(h, w) ==
    { [h |-> h, w |-> w, c |-> [p \in Cells(h, w) |-> IF p \in A THEN 1 ELSE 0]] :
        A \in SUBSET Interior(h, w) }

InitTwoRules ==
    /\ \E h \in 1 .. BorderMaxCells, w \in 1 .. BorderMaxCells :
          /\ h * w <= BorderMaxCells
          /\ \E g \in DeadBorderGrids(h, w) \cup
                        (IF h * w <= LifeMaxCells THEN Grids(h, w, {0, 1}) ELSE {}) :
                /\ call = [fn |-> "LifeModel.step", grid |-> g]
                /\ life = [NewGameOfLife(h, w) EXCEPT !.grid = g]
    /\ ret = None
    /\ IdleFire /\ IdleStats /\ IdleMain /\ IdleApp
    /\ op = "init"

\* new = LifeModel.step(grid) on the grid of the call
ApplyLifeModelStep ==
    /\ ret = None
    /\ ret' = LifeModelStep(call.grid)
    /\ op' = "LifeModel.step"
    /\ UNCHANGED <<call, life, fire, st, draws, win, canvas, app, acanvas>>

\* st = life.step() on the GameOfLife holding the same grid
ApplyGameOfLifeStep ==
    /\ st = None
    /\ LET r == GameOfLifeStep(life)
       IN  /\ life' = r.self
           /\ st' = r.st
    /\ op' = "GameOfLife.step"
    /\ UNCHANGED <<call, ret, fire, draws, win, canvas, app, acanvas>>

NextTwoRules == ApplyLifeModelStep \/ ApplyGameOfLifeStep

SpecTwoRules == InitTwoRules /\ [][NextTwoRules]_vars

----------------------------------------------------------------------------
(* Specification SpecFireArgs: the two Fire steps with a probability       *)
(* outside [0, 1] in at least one of the two parameters.                   *)

\* probabilities in thousandths, below 0 and above 1 included
PArgs == PValues \cup {-500, 1500}

InitFireArgs ==
    /\ \E g \in FireGrids, pg \in PArgs, pl \in PArgs :
          /\ pg \notin 0 .. 1000 \/ pl \notin 0 .. 1000
          /\ \/ /\ call = [fn |-> "FireModel.step", grid |-> g,
                            p_growth |-> pg, p_lightning |-> pl]
                /\ IdleFire
             \/ /\ fire = [NewForestFire(g.h, g.w, pg, pl) EXCEPT !.grid = g]
                /\ IdleCall
    /\ ret = None
    /\ IdleLife /\ IdleStats /\ IdleMain /\ IdleApp
    /\ op = "init"

SpecFireArgs == InitFireArgs /\ [][NextFire]_vars

----------------------------------------------------------------------------
(* Specification SpecFireRun: any sequence of ForestFire.step calls from   *)
(* every Fire grid                                                         *)

InitFireRun == InitForestFire

\* st = self.fire.step()
StepForestFire ==
    /\ \E lightning \in DrawMasks(Cells(fire.h, fire.w), fire.p_lightning),
          grow \in DrawMasks(Cells(fire.h, fire.w), fire.p_growth) :
            LET r == ForestFireStep(fire, lightning, grow)
            IN  /\ r.self.burned_total <= MaxBurned
                /\ fire' = r.self
                /\ st' = r.st
    /\ op' = "ForestFire.step"
    /\ UNCHANGED <<call, ret, life, draws, win, canvas, app, acanvas>>

NextFireRun == StepForestFire

SpecFireRun == InitFireRun /\ [][NextFireRun]_vars

----------------------------------------------------------------------------
(* Specifications SpecFireDieOut and SpecFireDieOutFair: Fire stepped      *)
(* again and again with p_growth = 0 and p_lightning = 0 from every Fire   *)
(* grid, by grid = FireModel.step(grid, 0, 0) or by ForestFire.step on a   *)
(* ForestFire(h, w, 0, 0); in the second one the stepping never stops      *)

InitFireDieOut ==
    /\ \E g \in FireGrids :
          \/ /\ call = [fn |-> "FireModel.step", grid |-> g,
                        p_growth |-> 0, p_lightning |-> 0]
             /\ ret = None
             /\ IdleFire
          \/ /\ fire = [NewForestFire(g.h, g.w, 0, 0) EXCEPT !.grid = g]
             /\ IdleCall
    /\ IdleLife /\ IdleStats /\ IdleMain /\ IdleApp
    /\ op = "init"

\* grid = FireModel.step(grid, p_growth, p_lightning)
StepFireModelAgain ==
    /\ call.fn = "FireModel.step"
    /\ \E lightning \in DrawMasks(FireModelLightningDraws(call.grid), call.p_lightning),
          grow \in DrawMasks(FireModelGrowthDraws(call.grid), call.p_growth) :
            /\ ret' = FireModelStep(call.grid, lightning, grow)
            /\ call' = [call EXCEPT !.grid = FireModelStep(call.grid, lightning, grow)]
    /\ op' = "FireModel.step"
    /\ UNCHANGED <<life, fire, st, draws, win, canvas, app, acanvas>>

\* st = fire.step() on the ForestFire of the run
StepForestFireAgain == IdleCall /\ StepForestFire

NextFireDieOut == StepFireModelAgain \/ StepForestFireAgain

SpecFireDieOut == InitFireDieOut /\ [][NextFireDieOut]_vars

SpecFireDieOutFair == SpecFireDieOut /\ WF_vars(NextFireDieOut)

----------------------------------------------------------------------------
(* Specification SpecRle: rle_encode applied to every grid, empty shapes   *)
(* included, and rle_decode applied to the string it returned with the     *)
(* shape save_preset stores beside it                                      *)

RleShapes ==
    { s \in (0 .. RleMaxCells) \X (0 .. RleMaxCells) : s[1] * s[2] <= RleMaxCells }

\* where a sequence of length n made of at most RleMaxRuns runs may be cut
\* into runs: a run ends after each position of a cut set
RunCuts(n) == { c \in SUBSET (1 .. n - 1) : Cardinality(c) < RleMaxRuns }

\* the values of the runs: adjacent runs differ
RunVals(cuts) ==
    { u \in [1 .. Cardinality(cuts) + 1 -> {0, 1, 2}] :
        \A i \in 1 .. Cardinality(cuts) : u[i] # u[i + 1] }

\* the array of shape (h, w) whose cells in row-major order are those runs
RunGrid(h, w, cuts, vals) ==
    [h |-> h, w |-> w,
     c |-> [p \in Cells(h, w) |->
              vals[1 + Cardinality({ c \in cuts : c < p[1] * w + p[2] + 1 })]]]

InitRle ==
    /\ \E s \in RleShapes :
         \E cuts \in RunCuts(s[1] * s[2]) :
           \E vals \in RunVals(cuts) :
             call = [fn |-> "rle_encode", arr |-> RunGrid(s[1], s[2], cuts, vals)]
    /\ ret = None
    /\ IdleLife /\ IdleFire /\ IdleStats /\ IdleMain /\ IdleApp
    /\ op = "init"

\* rle = rle_encode(grid)
CallRleEncode ==
    /\ op = "init"
    /\ call.fn = "rle_encode"
    /\ ret' = RleEncode(call.arr)
    /\ op' = "rle_encode"
    /\ UNCHANGED <<call, life, fire, st, draws, win, canvas, app, acanvas>>

\* grid = rle_decode(grid_rle, (h, w)), on the string and the shape of the
\* array `of` that was encoded
CallRleDecode ==
    /\ op = "rle_encode"
    /\ call' = [fn |-> "rle_decode", s |-> ret,
                shape |-> <<call.arr.h, call.arr.w>>, of |-> call.arr]
    /\ ret' = RleDecode(ret, call.arr.h, call.arr.w)
    /\ op' = "rle_decode"
    /\ UNCHANGED <<life, fire, st, draws, win, canvas, app, acanvas>>

NextRle == CallRleEncode \/ CallRleDecode

SpecRle == InitRle /\ [][NextRle]_vars

----------------------------------------------------------------------------
(* Specification SpecRleText: rle_decode called on any short text and any  *)
(* small shape, and rle_encode called on any small array.                  *)

\* the characters of the texts: digits, the two separators, a sign and a
\* letter
TextChars == {"0", "1", "2", ":", "-", "x"}

\* the texts between two ';'
TokenTexts ==
    UNION { [1 .. n -> TextChars] : n \in 0 .. TextMaxToken }
       \cup {<<"2", "0", "0", ":", "1">>}

TextShapes == (0 .. TextMaxDim) \X (0 .. TextMaxDim)

InitRleText ==
    /\ \E sh \in TextShapes :
          \/ \E t1 \in TokenTexts :
                call = [fn |-> "rle_decode", s |-> t1, shape |-> sh]
          \/ \E t1, t2 \in TokenTexts :
                call = [fn |-> "rle_decode", s |-> Join(<<t1, t2>>, ";"), shape |-> sh]
          \/ \E g \in Grids(sh[1], sh[2], {0, 1, 2}) :
                call = [fn |-> "rle_encode", arr |-> g]
    /\ ret = None
    /\ IdleLife /\ IdleFire /\ IdleStats /\ IdleMain /\ IdleApp
    /\ op = "init"

\* rle_decode(s, shape)
CallRleDecodeText ==
    /\ op = "init"
    /\ call.fn = "rle_decode"
    /\ ret' \in RleDecodeOutcomes(call.s, call.shape[1], call.shape[2])
    /\ op' = "rle_decode"
    /\ UNCHANGED <<call, life, fire, st, draws, win, canvas, app, acanvas>>

NextRleText == CallRleDecodeText \/ CallRleEncode \/ CallRleDecode

SpecRleText == InitRleText /\ [][NextRleText]_vars

----------------------------------------------------------------------------
(* Specification SpecMain: the MainWindow of celllab_mix_full.py driven by *)
(* its buttons, spin boxes, combo box, timer, mouse and preset list.       *)

\* MainWindow.on_step, the masks being the draws of ForestFire.step
OnStep(s, lightning, grow) ==
    IF s.win.model_name = "life"
    THEN LET r == GameOfLifeStep(s.life)
         IN  [s |-> [s EXCEPT !.win.tick = s.win.tick + 1, !.life = r.self,
                              !.canvas = Rebound(s.canvas, "life")],
              st |-> r.st]
    ELSE LET r == ForestFireStep(s.fire, lightning, grow)
         IN  [s |-> [s EXCEPT !.win.tick = s.win.tick + 1, !.fire = r.self,
                              !.canvas = Rebound(s.canvas, "fire")],
              st |-> r.st]

\* the row MainWindow.save_preset writes for a grid and the spin values
SavedPreset(model, grid, p_growth, p_light) ==
    [model |-> model, width |-> grid.w, height |-> grid.h,
     params |-> IF model = "fire"
                THEN [p_growth |-> p_growth, p_lightning |-> p_light]
                ELSE None,
     grid_rle |-> RleEncode(grid)]

\* MainWindow.load_preset for the selected row
LoadPreset(s, row) ==
    LET h == row.height
        w == row.width
        s1 == SetModelCombo(s, row.model)
        s2 == SetWSpin(s1, w)
        s3 == SetHSpin(s2, h)
        d == RleDecode(row.grid_rle, h, w)
    IN  IF ~d.ok THEN s3
        ELSE IF row.model = "life"
        THEN [s3 EXCEPT !.life = [NewGameOfLife(h, w) EXCEPT !.grid = d.grid],
                        !.canvas = SetGrid("life", "life"),
                        !.win.tick = 0]
        ELSE LET s4 == [s3 EXCEPT !.fire =
                          [NewForestFire(h, w, row.params.p_growth,
                                         row.params.p_lightning)
                             EXCEPT !.grid = d.grid]]
                 s5 == SetPGrowthSpin(s4, s4.fire.p_growth)
                 s6 == SetPLightSpin(s5, s5.fire.p_lightning)
             IN  [s6 EXCEPT !.canvas = SetGrid("fire", "fire"),
                            !.win.tick = 0]

\* the values the p_growth and p_light spin boxes take: growth is switched
\* off and on, lightning stays at its default
GrowthValues == {0, DefaultPGrowth}
LightValues == {DefaultPLightning}

\* the rows of the preset table: what save_preset stored in earlier sessions
PresetRows ==
    { SavedPreset("life", g, 0, 0) :
        g \in UNION { Grids(h, w, {0, 1}) : h \in 1 .. MainMaxH, w \in 1 .. MainMaxW } }
    \cup
    UNION { { SavedPreset("fire", g, pg, pl) : pg \in GrowthValues, pl \in LightValues } :
        g \in UNION { Grids(h, w, {0, 1, 2}) : h \in 1 .. MainMaxH, w \in 1 .. MainMaxW } }

MainState == [win |-> win, life |-> life, fire |-> fire, canvas |-> canvas]

MainBecomes(s) ==
    /\ win' = s.win
    /\ life' = s.life
    /\ fire' = s.fire
    /\ canvas' = s.canvas

InitMain ==
    /\ \E h \in 1 .. MainMaxH, w \in 1 .. MainMaxW :
          /\ win = NewMainWindow(h, w)
          /\ life = NewGameOfLife(h, w)
          /\ fire = NewForestFire(h, w, DefaultPGrowth, DefaultPLightning)
    /\ canvas = NewGridCanvas
    /\ op = "init"
    /\ IdleCall /\ IdleStats /\ IdleApp

DoOnStep ==
    /\ win.tick < MaxTick
    /\ \E lightning \in IF win.model_name = "fire"
                        THEN DrawMasks(Cells(fire.h, fire.w), fire.p_lightning)
                        ELSE {{}},
          grow \in IF win.model_name = "fire"
                   THEN DrawMasks(Cells(fire.h, fire.w), fire.p_growth)
                   ELSE {{}} :
            LET r == OnStep(MainState, lightning, grow)
            IN  /\ r.s.fire.burned_total <= MainMaxBurned
                /\ MainBecomes(r.s)
                /\ st' = r.st
    /\ op' = "on_step"
    /\ UNCHANGED <<call, ret, draws, app, acanvas>>

\* btn_step.clicked
ClickStep == DoOnStep

\* timer.timeout while the timer runs
TimerTimeout == win.timer /\ DoOnStep

\* btn_play.clicked -> toggle_play
TogglePlay ==
    /\ win' = [win EXCEPT !.timer = ~win.timer]
    /\ op' = "toggle_play"
    /\ st' = None
    /\ UNCHANGED <<call, ret, life, fire, draws, canvas, app, acanvas>>

\* btn_clear.clicked -> on_clear
ClickClear ==
    /\ MainBecomes(OnClear(MainState))
    /\ op' = "on_clear"
    /\ st' = None
    /\ UNCHANGED <<call, ret, draws, app, acanvas>>

\* btn_random.clicked -> on_random
ClickRandom ==
    /\ \E g \in RandomGrids(MainState) : MainBecomes(OnRandom(MainState, g))
    /\ op' = "on_random"
    /\ st' = None
    /\ UNCHANGED <<call, ret, draws, app, acanvas>>

\* the user picks the other entry of model_combo
PickModel ==
    /\ \E name \in {"life", "fire"} \ {win.model_name} :
          MainBecomes(SetModelCombo(MainState, name))
    /\ op' = "on_model_change"
    /\ st' = None
    /\ UNCHANGED <<call, ret, draws, app, acanvas>>

\* the user changes w_spin or h_spin (both signals run on_resize_grid)
EditSizeSpin ==
    /\ \/ \E w \in (1 .. MainMaxW) \ {win.grid_w} : MainBecomes(SetWSpin(MainState, w))
       \/ \E h \in (1 .. MainMaxH) \ {win.grid_h} : MainBecomes(SetHSpin(MainState, h))
    /\ op' = "on_resize_grid"
    /\ st' = None
    /\ UNCHANGED <<call, ret, draws, app, acanvas>>

\* the user changes the p_growth or the p_light spin box (both signals run
\* on_fire_params)
EditFireSpin ==
    /\ \/ \E p \in GrowthValues \ {win.p_growth} :
             MainBecomes(SetPGrowthSpin(MainState, p))
       \/ \E p \in LightValues \ {win.p_light} :
             MainBecomes(SetPLightSpin(MainState, p))
    /\ op' = "on_fire_params"
    /\ st' = None
    /\ UNCHANGED <<call, ret, draws, app, acanvas>>

\* a mouse press or drag over the canvas, inside the grid or just outside it
MousePress ==
    /\ \E i \in 0 .. MainMaxH, j \in 0 .. MainMaxW :
          MainBecomes(MouseEdit(MainState, i, j))
    /\ op' = "mouse"
    /\ st' = None
    /\ UNCHANGED <<call, ret, draws, app, acanvas>>

\* btn_load_preset.clicked -> load_preset with a row selected
ClickLoadPreset ==
    /\ \E row \in PresetRows : MainBecomes(LoadPreset(MainState, row))
    /\ op' = "load_preset"
    /\ st' = None
    /\ UNCHANGED <<call, ret, draws, app, acanvas>>

NextMain ==
    \/ ClickStep
    \/ TimerTimeout
    \/ TogglePlay
    \/ ClickClear
    \/ ClickRandom
    \/ PickModel
    \/ EditSizeSpin
    \/ EditFireSpin
    \/ MousePress
    \/ ClickLoadPreset

SpecMain == InitMain /\ [][NextMain]_vars

----------------------------------------------------------------------------
(* Specification SpecResize: one resize of a grid of any contents, by      *)
(* AutomataCanvas.set_grid_shape called directly, by the app's resize_grid *)
(* handler and by MainWindow.on_resize_grid.                               *)

Alphabet(model) == IF model = "life" THEN {0, 1} ELSE {0, 1, 2}

\* the shapes of at most maxdim rows and columns and at most maxcells cells
Shapes(maxdim, maxcells) ==
    { sh \in (1 .. maxdim) \X (1 .. maxdim) : sh[1] * sh[2] <= maxcells }

InitResizeApp ==
    /\ \E model \in {"life", "fire"}, sh \in Shapes(AppMaxDim, ResizeMaxCells) :
          \E g \in Grids(sh[1], sh[2], Alphabet(model)) :
             /\ app = [NewApp(sh[1], sh[2]) EXCEPT !.model = model, !.tick = 1]
             /\ acanvas = [NewAutomataCanvas(sh[1], sh[2], model) EXCEPT !.grid = g]
    /\ call = [fn |-> "app"]
    /\ ret = None
    /\ op = "init"
    /\ IdleLife /\ IdleFire /\ IdleStats /\ IdleMain

InitResizeMain ==
    /\ \E model \in {"life", "fire"}, sh \in Shapes(AppMaxDim, ResizeMaxCells) :
          \E g \in Grids(sh[1], sh[2], Alphabet(model)) :
           LET h == sh[1]
               w == sh[2]
           IN
             /\ win = [NewMainWindow(h, w) EXCEPT !.model_name = model, !.tick = 1]
             /\ life = IF model = "life"
                       THEN [NewGameOfLife(h, w) EXCEPT !.grid = g]
                       ELSE NewGameOfLife(h, w)
             /\ fire = IF model = "fire"
                       THEN [NewForestFire(h, w, DefaultPGrowth, DefaultPLightning)
                               EXCEPT !.grid = g]
                       ELSE NewForestFire(h, w, DefaultPGrowth, DefaultPLightning)
             /\ canvas = SetGrid(model, model)
    /\ call = [fn |-> "main"]
    /\ ret = None
    /\ op = "init"
    /\ IdleStats /\ IdleApp

InitResize == InitResizeApp \/ InitResizeMain

\* canvas.set_grid_shape(rows, cols) for any positive target
CallSetGridShape ==
    /\ op = "init" /\ call.fn = "app"
    /\ \E rows \in 1 .. AppMaxDim, cols \in 1 .. AppMaxDim :
          /\ acanvas' = SetGridShape(acanvas, rows, cols)
          /\ call' = [fn |-> "set_grid_shape", rows |-> rows, cols |-> cols,
                      from |-> <<acanvas.grid.h, acanvas.grid.w>>]
    /\ op' = "set_grid_shape"
    /\ UNCHANGED <<ret, life, fire, st, draws, win, canvas, app>>

\* the user changes height_spin or width_spin of the app -> resize_grid
EditAppSpin ==
    /\ op = "init" /\ call.fn = "app"
    /\ \E rows \in 1 .. AppMaxDim, cols \in 1 .. AppMaxDim :
          /\ (rows = app.rows) # (cols = app.cols)
          /\ LET r == ResizeGrid(app, acanvas, rows, cols)
             IN  app' = r.app /\ acanvas' = r.acanvas
          /\ call' = [fn |-> "resize_grid", rows |-> rows, cols |-> cols,
                      from |-> <<acanvas.grid.h, acanvas.grid.w>>]
    /\ op' = "resize_grid"
    /\ UNCHANGED <<ret, life, fire, st, draws, win, canvas>>

\* the user changes h_spin or w_spin of the MainWindow -> on_resize_grid
EditMainSpin ==
    /\ op = "init" /\ call.fn = "main"
    /\ \E h \in 1 .. AppMaxDim, w \in 1 .. AppMaxDim :
          /\ (h = win.grid_h) # (w = win.grid_w)
          /\ MainBecomes(OnResizeGrid(MainState, h, w))
          /\ call' = [fn |-> "on_resize_grid", rows |-> h, cols |-> w,
                      from |-> <<win.grid_h, win.grid_w>>]
    /\ op' = "on_resize_grid"
    /\ UNCHANGED <<ret, st, draws, app, acanvas>>

NextResize == CallSetGridShape \/ EditAppSpin \/ EditMainSpin

SpecResize == InitResize /\ [][NextResize]_vars

----------------------------------------------------------------------------
(* Specification SpecResizeArgs: set_grid_shape called directly with any   *)
(* target, zero and negative dimensions included.                          *)

\* canvas.set_grid_shape(rows, cols)
CallSetGridShapeAny ==
    /\ op = "init" /\ call.fn = "app"
    /\ \E rows \in -1 .. AppMaxDim, cols \in -1 .. AppMaxDim :
          LET r == SetGridShapeCall(acanvas, rows, cols)
          IN  /\ acanvas' = r.acanvas
              /\ ret' = r.ret
              /\ call' = [fn |-> "set_grid_shape", rows |-> rows, cols |-> cols,
                          from |-> <<acanvas.grid.h, acanvas.grid.w>>]
    /\ op' = "set_grid_shape"
    /\ UNCHANGED <<life, fire, st, draws, win, canvas, app>>

NextResizeArgs == CallSetGridShapeAny

SpecResizeArgs == InitResizeApp /\ [][NextResizeArgs]_vars

----------------------------------------------------------------------------
(* Specification SpecInsert: one change of the app's pattern_box, which    *)
(* runs insert_pattern, from any grid of the active model.                 *)

InitInsert ==
    /\ \E model \in {"life", "fire"}, tick \in {0, 1}, text \in {"Ninguno", "Glider"} :
       \E sh \in Shapes(AppMaxDim, IF model = "life" THEN LifeMaxCells ELSE FireMaxCells) :
          \E g \in Grids(sh[1], sh[2], Alphabet(model)) :
             /\ app = [NewApp(sh[1], sh[2]) EXCEPT !.model = model, !.tick = tick,
                                                  !.pattern_box = text]
             /\ acanvas = [NewAutomataCanvas(sh[1], sh[2], model) EXCEPT !.grid = g]
    /\ call = [fn |-> "app"]
    /\ ret = None
    /\ op = "init"
    /\ IdleLife /\ IdleFire /\ IdleStats /\ IdleMain

\* the user picks another entry of pattern_box -> insert_pattern(name)
PickPattern ==
    /\ op = "init" /\ call.fn = "app"
    /\ \E name \in ({"Ninguno"} \cup PatternNames) \ {app.pattern_box} :
       \E p \in IF app.model = "life" /\ name # "Ninguno"
                THEN PatternMatrices ELSE {None} :
          LET r == InsertPattern(app, acanvas, name, p)
          IN  /\ app' = r.app
              /\ acanvas' = r.acanvas
              /\ ret' = r.ret
              /\ call' = [fn |-> "insert_pattern", name |-> name, p |-> p]
    /\ op' = "insert_pattern"
    /\ UNCHANGED <<life, fire, st, draws, win, canvas>>

NextInsert == PickPattern

SpecInsert == InitInsert /\ [][NextInsert]_vars

----------------------------------------------------------------------------
(* Specification SpecAppStep: the app stepped again and again (Step button *)
(* or timer) from any grid of the Life or the Fire model.                  *)

InitAppStep ==
    /\ \E model \in {"life", "fire"} :
         \E g \in IF model = "life" THEN LifeGrids ELSE FireGrids :
            /\ app = [NewApp(g.h, g.w) EXCEPT !.model = model]
            /\ acanvas = [NewAutomataCanvas(g.h, g.w, model) EXCEPT !.grid = g]
    /\ call = [fn |-> "app"]
    /\ ret = None
    /\ op = "init"
    /\ IdleLife /\ IdleFire /\ IdleStats /\ IdleMain

\* step() or the timer's timeout -> update_grid(); the array the step read
\* is kept in call
AppStep ==
    /\ app.tick < AppMaxTick
    /\ \E d \in UpdateGridDraws(app, acanvas) :
          LET r == UpdateGrid(app, acanvas, d.lightning, d.grow)
          IN  /\ app' = r.app
              /\ acanvas' = r.acanvas
              /\ draws' = d
    /\ call' = [fn |-> "update_grid", grid |-> acanvas.grid]
    /\ op' = "update_grid"
    /\ UNCHANGED <<ret, life, fire, st, win, canvas>>

NextAppStep == AppStep

SpecAppStep == InitAppStep /\ [][NextAppStep]_vars

----------------------------------------------------------------------------
(* Specification SpecTwoRuns: two runs of Life stepping from one grid,     *)
(* stepped in any interleaving.  The first run is the program's own object *)
(* (the GameOfLife in `life`, or the grid of the app, stepped by           *)
(* LifeModel.step); the second run is kept in call.other.  call.m and      *)
(* call.n count the steps of the first and of the second run, call.start   *)
(* is the grid both started from.                                          *)

InitTwoRuns ==
    /\ \E g \in LifeGrids :
          \/ /\ life = [NewGameOfLife(g.h, g.w) EXCEPT !.grid = g]
             /\ call = [fn |-> "runs of GameOfLife.step", start |-> g, m |-> 0, n |-> 0,
                        other |-> [NewGameOfLife(g.h, g.w) EXCEPT !.grid = g]]
             /\ IdleApp
          \/ /\ app = NewApp(g.h, g.w)
             /\ acanvas = [NewAutomataCanvas(g.h, g.w, "life") EXCEPT !.grid = g]
             /\ call = [fn |-> "runs of LifeModel.step", start |-> g, m |-> 0, n |-> 0,
                        other |-> g]
             /\ IdleLife
    /\ ret = None
    /\ op = "init"
    /\ IdleFire /\ IdleStats /\ IdleMain

\* st = self.life.step() in the first run
StepFirstGameOfLife ==
    /\ call.fn = "runs of GameOfLife.step" /\ call.m < RunMaxSteps
    /\ LET r == GameOfLifeStep(life)
       IN  life' = r.self /\ st' = r.st
    /\ call' = [call EXCEPT !.m = call.m + 1]
    /\ op' = "first run"
    /\ UNCHANGED <<ret, fire, draws, win, canvas, app, acanvas>>

\* the same call in the second run
StepSecondGameOfLife ==
    /\ call.fn = "runs of GameOfLife.step" /\ call.n < RunMaxSteps
    /\ LET r == GameOfLifeStep(call.other)
       IN  /\ call' = [call EXCEPT !.n = call.n + 1, !.other = r.self]
           /\ st' = r.st
    /\ op' = "second run"
    /\ UNCHANGED <<ret, life, fire, draws, win, canvas, app, acanvas>>

\* update_grid -> new = LifeModel.step(grid) in the first run
StepFirstLifeModel ==
    /\ call.fn = "runs of LifeModel.step" /\ call.m < RunMaxSteps
    /\ LET r == UpdateGrid(app, acanvas, {}, {})
       IN  app' = r.app /\ acanvas' = r.acanvas
    /\ call' = [call EXCEPT !.m = call.m + 1]
    /\ op' = "first run"
    /\ UNCHANGED <<ret, life, fire, st, draws, win, canvas>>

\* new = LifeModel.step(grid) in the second run
StepSecondLifeModel ==
    /\ call.fn = "runs of LifeModel.step" /\ call.n < RunMaxSteps
    /\ call' = [call EXCEPT !.n = call.n + 1, !.other = LifeModelStep(call.other)]
    /\ op' = "second run"
    /\ UNCHANGED <<ret, life, fire, st, draws, win, canvas, app, acanvas>>

NextTwoRuns ==
    \/ StepFirstGameOfLife \/ StepSecondGameOfLife
    \/ StepFirstLifeModel \/ StepSecondLifeModel

SpecTwoRuns == InitTwoRuns /\ [][NextTwoRuns]_vars

----------------------------------------------------------------------------
(* Specification SpecToggle: mouse edits, one after another, on the canvas *)
(* of the app (AutomataCanvas) and on the canvas of the MainWindow         *)
(* (GridCanvas), from any grid.  call keeps the cell of the last edit, the *)
(* number k of edits made in a row at that cell and the grid `start` as it *)
(* was before the first of them.                                           *)

ToggleShapes(model) ==
    Shapes(AppMaxDim, IF model = "life" THEN LifeMaxCells ELSE FireMaxCells)

InitToggleApp ==
    /\ \E model \in {"life", "fire"} :
         \E sh \in ToggleShapes(model) :
            \E g \in Grids(sh[1], sh[2], Alphabet(model)) :
               /\ app = [NewApp(sh[1], sh[2]) EXCEPT !.model = model]
               /\ acanvas = [NewAutomataCanvas(sh[1], sh[2], model) EXCEPT !.grid = g]
    /\ call = [fn |-> "app"]
    /\ ret = None
    /\ op = "init"
    /\ IdleLife /\ IdleFire /\ IdleStats /\ IdleMain

InitToggleMain ==
    /\ \E model \in {"life", "fire"} :
         \E sh \in ToggleShapes(model) :
            \E g \in Grids(sh[1], sh[2], Alphabet(model)) :
               LET h == sh[1]
                   w == sh[2]
               IN
                 /\ win = [NewMainWindow(h, w) EXCEPT !.model_name = model]
                 /\ life = IF model = "life"
                           THEN [NewGameOfLife(h, w) EXCEPT !.grid = g]
                           ELSE NewGameOfLife(h, w)
                 /\ fire = IF model = "fire"
                           THEN [NewForestFire(h, w, DefaultPGrowth, DefaultPLightning)
                                   EXCEPT !.grid = g]
                           ELSE NewForestFire(h, w, DefaultPGrowth, DefaultPLightning)
                 /\ canvas = SetGrid(model, model)
    /\ call = [fn |-> "main"]
    /\ ret = None
    /\ op = "init"
    /\ IdleStats /\ IdleApp

InitToggle == InitToggleApp \/ InitToggleMain

\* what call keeps of an edit by fn at (r, c) of the grid g
EditRecord(fn, r, c, g) ==
    IF call.fn = fn /\ call.r = r /\ call.c = c /\ call.k < 3
    THEN [fn |-> fn, r |-> r, c |-> c, k |-> call.k + 1, start |-> call.start]
    ELSE [fn |-> fn, r |-> r, c |-> c, k |-> 1, start |-> g]

\* mousePressEvent / mouseMoveEvent on the AutomataCanvas, over a cell of the
\* grid or just outside it
AppMousePress ==
    /\ call.fn \in {"app", "_toggle"}
    /\ \E r \in -1 .. acanvas.rows, c \in -1 .. acanvas.cols :
          /\ acanvas' = Toggle(acanvas, r, c)
          /\ call' = EditRecord("_toggle", r, c, acanvas.grid)
    /\ op' = "_toggle"
    /\ UNCHANGED <<ret, life, fire, st, draws, win, canvas, app>>

\* the array the GridCanvas holds
GridRef == IF canvas.ref = "life" THEN life.grid ELSE fire.grid

\* mousePressEvent / mouseMoveEvent on the GridCanvas
MainMousePress ==
    /\ call.fn \in {"main", "_toggle_cell"}
    /\ \E i \in -1 .. GridRef.h, j \in -1 .. GridRef.w :
          /\ MainBecomes(MouseEdit(MainState, i, j))
          /\ call' = EditRecord("_toggle_cell", i, j, GridRef)
    /\ op' = "_toggle_cell"
    /\ UNCHANGED <<ret, st, draws, app, acanvas>>

NextToggle == AppMousePress \/ MainMousePress

SpecToggle == InitToggle /\ [][NextToggle]_vars

----------------------------------------------------------------------------
(* Specification SpecApp: the CellularAutomatonApp driven by its widgets   *)
(* (buttons, timer, model box, size spin boxes, pattern box, mouse) from   *)
(* its constructed state, on grids of at most DrvMaxDim rows and columns.  *)

InitApp ==
    /\ \E rows \in 1 .. DrvMaxDim, cols \in 1 .. DrvMaxDim :
          /\ app = NewApp(rows, cols)
          /\ acanvas = NewAutomataCanvas(rows, cols, "life")
    /\ call = [fn |-> "app"]
    /\ ret = None
    /\ op = "init"
    /\ IdleLife /\ IdleFire /\ IdleStats /\ IdleMain

\* what an operation of the app leaves in call, ret and op
AppDid(name) ==
    /\ call' = [fn |-> name]
    /\ ret' = None
    /\ op' = name

AppUpdateGrid ==
    /\ app.tick < DrvMaxTick
    /\ \E d \in UpdateGridDraws(app, acanvas) :
          LET r == UpdateGrid(app, acanvas, d.lightning, d.grow)
          IN  app' = r.app /\ acanvas' = r.acanvas
    /\ AppDid("update_grid")
    /\ UNCHANGED <<life, fire, st, draws, win, canvas>>

\* the Step button -> step()
AppClickStep == AppUpdateGrid

\* timer.timeout -> update_grid(), while the timer runs
AppTimerTimeout == app.timer /\ AppUpdateGrid

\* the Start button -> start()
AppClickStart ==
    /\ app' = [app EXCEPT !.timer = TRUE]
    /\ AppDid("start")
    /\ UNCHANGED <<life, fire, st, draws, win, canvas, acanvas>>

\* the Stop button -> stop()
AppClickStop ==
    /\ app' = [app EXCEPT !.timer = FALSE]
    /\ AppDid("stop")
    /\ UNCHANGED <<life, fire, st, draws, win, canvas, acanvas>>

\* the Random button -> randomize()
AppClickRandom ==
    /\ \E g \in RandomizeGrids(app) :
          LET r == Randomize(app, acanvas, g)
          IN  app' = r.app /\ acanvas' = r.acanvas
    /\ AppDid("randomize")
    /\ UNCHANGED <<life, fire, st, draws, win, canvas>>

\* the Clear button -> clear()
AppClickClear ==
    /\ LET r == Cleared(app, acanvas)
       IN  app' = r.app /\ acanvas' = r.acanvas
    /\ AppDid("clear")
    /\ UNCHANGED <<life, fire, st, draws, win, canvas>>

\* the user picks the other entry of model_box -> change_model(m); call
\* keeps the array as it was before
AppPickModel ==
    /\ \E m \in {"life", "fire"} \ {app.model} :
          /\ LET r == ChangeModel(app, acanvas, m)
             IN  app' = r.app /\ acanvas' = r.acanvas
          /\ call' = [fn |-> "change_model", m |-> m, grid |-> acanvas.grid]
    /\ ret' = None
    /\ op' = "change_model"
    /\ UNCHANGED <<life, fire, st, draws, win, canvas>>

\* the user changes height_spin or width_spin -> resize_grid()
AppEditSpin ==
    /\ \E rows \in 1 .. DrvMaxDim, cols \in 1 .. DrvMaxDim :
          /\ (rows = app.rows) # (cols = app.cols)
          /\ LET r == ResizeGrid(app, acanvas, rows, cols)
             IN  app' = r.app /\ acanvas' = r.acanvas
    /\ AppDid("resize_grid")
    /\ UNCHANGED <<life, fire, st, draws, win, canvas>>

\* a mouse press or drag over the canvas
AppMouse ==
    /\ \E r \in -1 .. acanvas.rows, c \in -1 .. acanvas.cols :
          acanvas' = Toggle(acanvas, r, c)
    /\ AppDid("_toggle")
    /\ UNCHANGED <<life, fire, st, draws, win, canvas, app>>

\* the user picks another entry of pattern_box -> insert_pattern(name)
AppPickPattern ==
    /\ \E name \in ({"Ninguno"} \cup PatternNames) \ {app.pattern_box} :
       \E p \in IF app.model = "life" /\ name # "Ninguno"
                THEN PatternMatrices ELSE {None} :
          LET r == InsertPattern(app, acanvas, name, p)
          IN  /\ app' = r.app
              /\ acanvas' = r.acanvas
              /\ ret' = r.ret
    /\ call' = [fn |-> "insert_pattern"]
    /\ op' = "insert_pattern"
    /\ UNCHANGED <<life, fire, st, draws, win, canvas>>

NextApp ==
    \/ AppClickStep \/ AppTimerTimeout \/ AppClickStart \/ AppClickStop
    \/ AppClickRandom \/ AppClickClear \/ AppPickModel \/ AppEditSpin
    \/ AppMouse \/ AppPickPattern

SpecApp == InitApp /\ [][NextApp]_vars

----------------------------------------------------------------------------
(* Claims *)

Abs(x) == IF x < 0 THEN 0 - x ELSE x

\* the in-grid cells of the Moore neighbourhood of p, p excluded
BoundedNeighbours(g, p) ==
    { q \in Cells(g.h, g.w) :
        q # p /\ Abs(q[1] - p[1]) <= 1 /\ Abs(q[2] - p[2]) <= 1 }

\* the cells at the 8 offsets around p, indices taken modulo the shape
ToroidalNeighbours(g, p) ==
    { <<(p[1] + d[1]) % g.h, (p[2] + d[2]) % g.w>> :
        d \in ({-1, 0, 1} \X {-1, 0, 1}) \ {<<0, 0>>} }

MooreAlive(g, p) == Cardinality({ q \in BoundedNeighbours(g, p) : g.c[q] = 1 })

\* C1: LifeModel.step returns a grid of the input's shape in which an ALIVE
\* cell whose number n of ALIVE in-grid Moore neighbours is not 2 or 3 is
\* DEAD, a DEAD cell with n = 3 is ALIVE, and every other cell is unchanged.
C1_LifeModelStepRule ==
    op = "LifeModel.step" =>
        /\ ret.h = call.grid.h
        /\ ret.w = call.grid.w
        /\ DOMAIN ret.c = Cells(call.grid.h, call.grid.w)
        /\ \A p \in Cells(call.grid.h, call.grid.w) :
             LET n == MooreAlive(call.grid, p)
                 v == call.grid.c[p]
             IN  ret.c[p] = IF v = 1 /\ n \notin {2, 3} THEN 0
                            ELSE IF v = 0 /\ n = 3 THEN 1
                            ELSE v

\* a step of a 3x3 grid with a birth, a death and a survivor
C1_Witness ==
    /\ op = "LifeModel.step"
    /\ call.grid.h = 3 /\ call.grid.w = 3
    /\ \E p, q, r \in Cells(3, 3) :
         /\ call.grid.c[p] = 0 /\ ret.c[p] = 1
         /\ call.grid.c[q] = 1 /\ ret.c[q] = 0
         /\ call.grid.c[r] = 1 /\ ret.c[r] = 1

\* the Fire rule, cell by cell, between a prior grid g and the next grid n,
\* for the neighbourhood nbrs and the recorded draws d
FireRule(g, n, d, nbrs(_, _)) ==
    /\ n.h = g.h /\ n.w = g.w
    /\ \A p \in Cells(g.h, g.w) :
         LET near == \E q \in nbrs(g, p) : g.c[q] = 2
         IN  n.c[p] =
               IF g.c[p] = 2 THEN 0
               ELSE IF g.c[p] = 1
                    THEN (IF near \/ p \in d.lightning THEN 2 ELSE 1)
               ELSE (IF p \in d.grow THEN 1 ELSE 0)

\* C2: one Fire step (FireModel.step with bounded neighbours, ForestFire.step
\* with toroidal ones) decides each cell from the prior grid only: BURNING
\* becomes EMPTY, a TREE with a BURNING neighbour becomes BURNING, a TREE
\* with none becomes BURNING exactly when its lightning draw succeeds and
\* otherwise stays TREE, and an EMPTY cell becomes TREE exactly when its
\* growth draw succeeds and otherwise stays EMPTY.
C2_FireStepRule ==
    [][ /\ op' = "FireModel.step" =>
             FireRule(call.grid, ret', draws', BoundedNeighbours)
        /\ op' = "ForestFire.step" =>
             FireRule(fire.grid, fire'.grid, draws', ToroidalNeighbours) ]_vars

\* a FireModel.step in which a fire burnt out, a tree caught fire from a
\* neighbour, a tree was struck by lightning and an empty cell grew a tree
C2_Witness ==
    /\ op = "FireModel.step"
    /\ \E a, b, c, e \in Cells(call.grid.h, call.grid.w) :
         /\ call.grid.c[a] = 2 /\ ret.c[a] = 0
         /\ call.grid.c[b] = 1 /\ a \in BoundedNeighbours(call.grid, b)
         /\ ret.c[b] = 2
         /\ call.grid.c[c] = 1 /\ c \in draws.lightning /\ ret.c[c] = 2
         /\ call.grid.c[e] = 0 /\ e \in draws.grow /\ ret.c[e] = 1

\* C4: burned_total never decreases over a ForestFire.step.
C4_BurnedTotalMonotone ==
    [][op' = "ForestFire.step" => fire'.burned_total >= fire.burned_total]_vars

\* a second step that burnt more trees after a first one had burnt some
C4_Witness ==
    /\ op = "ForestFire.step"
    /\ fire.burned_total >= 2
    /\ st.burning >= 1
    /\ st.burning < fire.burned_total

\* C6: after ForestFire.step the returned counts add up to rows*cols, each
\* is the number of cells of that state in the new grid, and burned_total
\* grew by exactly the number of cells that went from TREE to BURNING.
C6_FireStats ==
    [][op' = "ForestFire.step" =>
         LET g == fire.grid
             n == fire'.grid
             cells == Cells(n.h, n.w)
         IN  /\ st'.empty + st'.trees + st'.burning = n.h * n.w
             /\ st'.empty = Cardinality({ p \in cells : n.c[p] = 0 })
             /\ st'.trees = Cardinality({ p \in cells : n.c[p] = 1 })
             /\ st'.burning = Cardinality({ p \in cells : n.c[p] = 2 })
             /\ fire'.burned_total - fire.burned_total
                  = Cardinality({ p \in cells : g.c[p] = 1 /\ n.c[p] = 2 })
             /\ st'.burned_total = fire'.burned_total ]_vars

\* a step after which the grid holds cells of all three states
C6_Witness ==
    /\ op = "ForestFire.step"
    /\ st.empty >= 1 /\ st.trees >= 1 /\ st.burning >= 1
    /\ st.burned_total >= 1

\* C7: after GameOfLife.step, births + deaths <= rows*cols and alive, the
\* number of ALIVE cells of the new grid, is the prior alive count minus
\* deaths plus births, births and deaths being the numbers of cells that
\* went 0->1 and 1->0 in the step.
C7_LifeStats ==
    [][op' = "GameOfLife.step" =>
         LET g == life.grid
             n == life'.grid
             cells == Cells(g.h, g.w)
         IN  /\ st'.births + st'.deaths <= g.h * g.w
             /\ st'.births = Cardinality({ p \in cells : g.c[p] = 0 /\ n.c[p] = 1 })
             /\ st'.deaths = Cardinality({ p \in cells : g.c[p] = 1 /\ n.c[p] = 0 })
             /\ st'.alive = Cardinality({ p \in cells : n.c[p] = 1 })
             /\ st'.alive = Cardinality({ p \in cells : g.c[p] = 1 })
                              - st'.deaths + st'.births ]_vars

\* a step with births and deaths
C7_Witness ==
    /\ op = "GameOfLife.step"
    /\ st.births >= 1 /\ st.deaths >= 1 /\ st.alive >= 1

\* C3: rle_decode(rle_encode(g), g.shape) equals g cell for cell, for every
\* grid g over {0,1,2}.
C3_RleRoundTrip ==
    op = "rle_decode" =>
        /\ ret.ok
        /\ ret.grid.h = call.of.h
        /\ ret.grid.w = call.of.w
        /\ \A p \in Cells(call.of.h, call.of.w) : ret.grid.c[p] = call.of.c[p]

\* a round trip of a grid of several rows with three runs, one of them ten
\* cells long
C3_Witness ==
    /\ op = "rle_decode"
    /\ ret.ok
    /\ call.of.h >= 2 /\ call.of.w >= 2
    /\ \E k \in 1 .. Len(call.s) - 1 : call.s[k] = "1" /\ call.s[k + 1] = "0"
    /\ Cardinality({ k \in 1 .. Len(call.s) : call.s[k] = ";" }) = 2

\* C5: across the operations of the MainWindow driver (step, mouse edit, grid
\* resize, model switch, parameter change, preset load, clear, randomize)
\* only on_clear and on_random lower fire.burned_total; every other operation
\* leaves it unchanged or increases it.
C5_BurnedTotalResetOnlyByClearOrRandom ==
    [][fire'.burned_total < fire.burned_total
         => op' \in {"on_clear", "on_random"}]_vars

\* the grid `new` is the grid `old` resized to (r2, c2): it has that shape,
\* the overlap [0:min(r,r2), 0:min(c,c2)] is old's and every other cell is 0
IsResizeOf(new, old, r2, c2) ==
    /\ new.h = r2 /\ new.w = c2
    /\ DOMAIN new.c = Cells(r2, c2)
    /\ \A q \in Cells(r2, c2) :
          new.c[q] = IF q[1] < Min(old.h, r2) /\ q[2] < Min(old.w, c2)
                     THEN old.c[q] ELSE 0

\* C8: a resize to (r2, c2), by AutomataCanvas.set_grid_shape (called directly
\* or through resize_grid) or by MainWindow.on_resize_grid for the active
\* model's grid, yields a grid of shape (r2, c2) whose overlap with the old
\* grid is copied and whose other cells are 0, shrinking and growing alike.
C8_ResizePreservesOverlap ==
    [][/\ op' \in {"set_grid_shape", "resize_grid"} =>
            IsResizeOf(acanvas'.grid, acanvas.grid, call'.rows, call'.cols)
       /\ op' = "on_resize_grid" /\ win.model_name = "life" =>
            IsResizeOf(life'.grid, life.grid, call'.rows, call'.cols)
       /\ op' = "on_resize_grid" /\ win.model_name = "fire" =>
            IsResizeOf(fire'.grid, fire.grid, call'.rows, call'.cols)]_vars

\* on_resize_grid has shrunk a Fire grid along one axis, and a burning cell
\* of the overlap is still there
C8_Witness ==
    /\ op = "on_resize_grid"
    /\ win.model_name = "fire"
    /\ call.from[1] > call.rows
    /\ call.rows >= 2
    /\ fire.grid.h = call.rows
    /\ \E q \in DOMAIN fire.grid.c : q[1] = call.rows - 1 /\ fire.grid.c[q] = 2

\* the cells under the true entries of p when p is centred on a grid of
\* rows x cols: top-left = (rows // 2 - p.h // 2, cols // 2 - p.w // 2)
PatternCells(p, rows, cols) ==
    { <<(rows \div 2) - (p.h \div 2) + q[1], (cols \div 2) - (p.w \div 2) + q[2]>> :
        q \in { x \in DOMAIN p.c : p.c[x] = 1 } }

PatternFits(p, rows, cols) == p.h <= rows /\ p.w <= cols

\* insert_pattern has just run on a Life grid with a pattern that fits
InsertedInLife ==
    /\ op' = "insert_pattern"
    /\ app.model = "life"
    /\ call'.name # "Ninguno"
    /\ PatternFits(call'.p, app.rows, app.cols)

\* C9 as stated: inserting a named pattern into a Life grid sets to ALIVE
\* exactly the cells where the pattern matrix is true and leaves every other
\* cell with the value it had before the insert.
C9_InsertLeavesOtherCells ==
    [][InsertedInLife =>
         \A q \in DOMAIN acanvas.grid.c :
            acanvas'.grid.c[q] =
               IF q \in PatternCells(call'.p, app.rows, app.cols)
               THEN 1 ELSE acanvas.grid.c[q]]_vars

\* C9 amended: inserting a named pattern that fits into a Life grid clears
\* the grid first: afterwards exactly the cells under the pattern's true
\* entries (pattern centred) are ALIVE, every other cell is DEAD whatever it
\* held before, the shape is unchanged and the call does not fail.
C9_InsertClearsThenPlaces ==
    [][InsertedInLife =>
         /\ ret' = None
         /\ acanvas'.grid.h = acanvas.grid.h /\ acanvas'.grid.w = acanvas.grid.w
         /\ \A q \in DOMAIN acanvas.grid.c :
               acanvas'.grid.c[q] =
                  IF q \in PatternCells(call'.p, app.rows, app.cols)
                  THEN 1 ELSE 0]_vars

\* a pattern with a true and a false entry has been inserted in a Life grid
\* larger than the pattern
C9_Witness ==
    /\ op = "insert_pattern"
    /\ app.model = "life"
    /\ call.name \in PatternNames
    /\ ret = None
    /\ call.p.h < acanvas.grid.h /\ call.p.w < acanvas.grid.w
    /\ Count(call.p, 1) >= 1 /\ Count(call.p, 0) >= 1
    /\ Count(acanvas.grid, 1) = Count(call.p, 1)

----------------------------------------------------------------------------
(* Pattern larger than the grid *)

\* C11: inserting, in Life mode, a pattern whose height or width exceeds
\* the grid's ends in an error (numpy cannot broadcast the matrix into the
\* truncated slice) and writes no part of the pattern: the grid is left
\* all zero by the clear that precedes the placement.
C11_OversizePatternFails ==
    [][/\ op' = "insert_pattern"
       /\ app.model = "life"
       /\ call'.name # "Ninguno"
       /\ ~PatternFits(call'.p, app.rows, app.cols)
       => /\ ret' = ValueError
          /\ acanvas'.grid = Zeros(acanvas.grid.h, acanvas.grid.w)]_vars

\* a pattern with a true entry, taller or wider than the Life grid, has
\* been picked and the call has failed
C11_Witness ==
    /\ op = "insert_pattern"
    /\ app.model = "life"
    /\ call.name \in PatternNames
    /\ ~PatternFits(call.p, app.rows, app.cols)
    /\ Count(call.p, 1) >= 1
    /\ ret = ValueError

----------------------------------------------------------------------------
(* rle_decode on malformed text *)

\* a token 'value:count' with two int literals
TokenParses(t) ==
    LET parts == Split(t, ":")
    IN  Len(parts) = 2 /\ IsIntLiteral(parts[1]) /\ IsIntLiteral(parts[2])

\* the tokens of a text: the empty text has none
RunTokens(s) == IF Len(s) = 0 THEN <<>> ELSE Split(s, ";")

TextParses(s) ==
    \A k \in 1 .. Len(RunTokens(s)) : TokenParses(RunTokens(s)[k])

RECURSIVE CountSumFrom(_, _, _)
\* the sum of the run counts of the tokens from the k-th on, a negative
\* count being taken as `low` when it is below `low`
CountSumFrom(tokens, k, low) ==
    IF k > Len(tokens) THEN 0
    ELSE LET c == ParseInt(Split(tokens[k], ":")[2])
         IN  (IF c < low THEN low ELSE c) + CountSumFrom(tokens, k + 1, low)

\* the sum of the run counts as written
CountSum(s) == CountSumFrom(RunTokens(s), 1, -1000)

\* the number of values the runs expand to: a negative count gives none
ExpandedLen(s) == CountSumFrom(RunTokens(s), 1, 0)

----------------------------------------------------------------------------
(* Resize with non-positive dimensions *)

\* C13: set_grid_shape(rows, cols) with rows <= 0 or cols <= 0 ends in an
\* error and leaves the grid and the recorded rows and cols as they were;
\* with positive rows and cols it ends without error and the grid has the
\* target shape.
C13_ResizeRejectsNonPositive ==
    [][op' = "set_grid_shape" =>
         IF call'.rows <= 0 \/ call'.cols <= 0
         THEN /\ ret' # None
              /\ acanvas' = acanvas
         ELSE /\ ret' = None
              /\ acanvas'.rows = call'.rows /\ acanvas'.cols = call'.cols
              /\ acanvas'.grid.h = call'.rows /\ acanvas'.grid.w = call'.cols]_vars

----------------------------------------------------------------------------
(* Fire step with a probability outside [0, 1] *)

\* a probability, in thousandths, within [0, 1]
IsProbability(p) == 0 <= p /\ p <= 1000

\* C14: a Fire step whose p_growth or p_lightning lies outside [0, 1] ends
\* in an error: FireModel.step returns no grid, and ForestFire.step leaves
\* the grid as it was and yields no statistics.
C14_FireRejectsBadProbability ==
    [][/\ op' = "FireModel.step"
          /\ ~(IsProbability(call.p_growth) /\ IsProbability(call.p_lightning))
          => "err" \in DOMAIN ret'
       /\ op' = "ForestFire.step"
          /\ ~(IsProbability(fire.p_growth) /\ IsProbability(fire.p_lightning))
          => fire' = fire /\ "err" \in DOMAIN st']_vars

----------------------------------------------------------------------------
(* Fire step with probabilities 0 *)

\* what probabilities of 0 (in thousandths: pg, pl) force on the step from
\* grid g to grid n, whatever the draws
ZeroProbabilityRule(g, n, pg, pl, nbrs(_, _)) ==
    /\ pg = 0 => \A p \in Cells(g.h, g.w) : g.c[p] = 0 => n.c[p] = 0
    /\ pl = 0 => \A p \in Cells(g.h, g.w) :
                    g.c[p] = 1 /\ (\A q \in nbrs(g, p) : g.c[q] # 2) => n.c[p] = 1
    /\ pg = 0 /\ pl = 0 /\ Count(g, 2) = 1 /\ Count(g, 1) = 0 => n = Zeros(g.h, g.w)

\* C15: in a Fire step (FireModel.step and ForestFire.step) with p_growth = 0
\* no EMPTY cell becomes TREE, and with p_lightning = 0 a TREE with no
\* BURNING neighbour stays TREE; a grid of one BURNING cell and otherwise
\* EMPTY, stepped with both at 0, becomes all EMPTY, and ForestFire's
\* burned_total is unchanged by that step.
C15_ZeroProbabilities ==
    [][/\ op' = "FireModel.step" =>
            ZeroProbabilityRule(call.grid, ret', call.p_growth, call.p_lightning,
                                BoundedNeighbours)
       /\ op' = "ForestFire.step" =>
            /\ ZeroProbabilityRule(fire.grid, fire'.grid, fire.p_growth,
                                   fire.p_lightning, ToroidalNeighbours)
            /\ fire.p_growth = 0 /\ fire.p_lightning = 0
               /\ Count(fire.grid, 2) = 1 /\ Count(fire.grid, 1) = 0
               => /\ fire'.burned_total = fire.burned_total
                  /\ st'.burned_total = fire.burned_total]_vars

\* FireModel.step with both probabilities 0 has turned a grid of several
\* cells, one BURNING and the others EMPTY, into the all-EMPTY grid
C15_Witness ==
    /\ op = "FireModel.step"
    /\ call.p_growth = 0 /\ call.p_lightning = 0
    /\ call.grid.h * call.grid.w >= 3
    /\ Count(call.grid, 2) = 1 /\ Count(call.grid, 1) = 0
    /\ ret = Zeros(call.grid.h, call.grid.w)

----------------------------------------------------------------------------
(* The blinker *)

\* [[0,0,0],[1,1,1],[0,0,0]]
BlinkerH == [h |-> 3, w |-> 3, c |-> [p \in Cells(3, 3) |-> IF p[1] = 1 THEN 1 ELSE 0]]

\* [[0,1,0],[0,1,0],[0,1,0]]
BlinkerV == [h |-> 3, w |-> 3, c |-> [p \in Cells(3, 3) |-> IF p[2] = 1 THEN 1 ELSE 0]]

\* C16: a LifeModel.step (bounded rule) of the 3x3 grid with the middle row
\* alive gives the grid with the middle column alive, and a step of that
\* one gives the first back, so stepping alternates between the two forms
\* for ever.
C16_BlinkerPeriodTwo ==
    [][op' = "update_grid" /\ app.model = "life" =>
         /\ acanvas.grid = BlinkerH => acanvas'.grid = BlinkerV
         /\ acanvas.grid = BlinkerV => acanvas'.grid = BlinkerH
         /\ call'.grid = BlinkerH => LifeModelStep(acanvas'.grid) = BlinkerH]_vars

\* the horizontal form is back after a fourth step, which read the vertical
\* form
C16_Witness ==
    /\ op = "update_grid"
    /\ app.model = "life"
    /\ app.tick = 4
    /\ call.grid = BlinkerV
    /\ acanvas.grid = BlinkerH

----------------------------------------------------------------------------
(* Mouse edits *)

\* the grid n is the grid g after one edit at (r, c) under the model: the
\* cell is flipped 0 <-> 1 (Life) or advanced 0 -> 1 -> 2 -> 0 (Fire) and
\* no other cell differs; at a position outside the grid nothing differs
IsEditOf(n, g, model, r, c) ==
    /\ n.h = g.h /\ n.w = g.w
    /\ DOMAIN n.c = DOMAIN g.c
    /\ \A q \in DOMAIN g.c :
          n.c[q] = IF q # <<r, c>> THEN g.c[q]
                   ELSE IF model = "life"
                        THEN (IF g.c[q] = 0 THEN 1 ELSE 0)
                        ELSE (IF g.c[q] = 0 THEN 1 ELSE IF g.c[q] = 1 THEN 2 ELSE 0)

\* the grid g is restored by the k-th edit in a row at one cell when k is
\* 2 under Life and 3 under Fire
RestoredBy(g, model, rec) ==
    (model = "life" /\ rec.k = 2) \/ (model = "fire" /\ rec.k = 3) => g = rec.start

\* C18: a mouse edit (AutomataCanvas._toggle, GridCanvas._toggle_cell) on a
\* cell inside the grid flips it 0 <-> 1 under Life and advances it
\* 0 -> 1 -> 2 -> 0 under Fire and changes no other cell; an edit outside
\* the grid changes nothing; two edits of one Life cell, or three of one
\* Fire cell, restore the grid.
C18_MouseEdit ==
    [][/\ op' = "_toggle" =>
            /\ IsEditOf(acanvas'.grid, acanvas.grid, acanvas.model, call'.r, call'.c)
            /\ RestoredBy(acanvas'.grid, acanvas.model, call')
            /\ acanvas'.model = acanvas.model
       /\ op' = "_toggle_cell" /\ canvas.ref = "life" =>
            /\ IsEditOf(life'.grid, life.grid, canvas.model_name, call'.r, call'.c)
            /\ RestoredBy(life'.grid, canvas.model_name, call')
            /\ fire' = fire
       /\ op' = "_toggle_cell" /\ canvas.ref = "fire" =>
            /\ IsEditOf(fire'.grid, fire.grid, canvas.model_name, call'.r, call'.c)
            /\ RestoredBy(fire'.grid, canvas.model_name, call')
            /\ life' = life]_vars

\* the third edit in a row of one BURNING cell of a Fire grid of the app,
\* which holds a TREE as well, has brought the grid back
C18_Witness ==
    /\ op = "_toggle"
    /\ acanvas.model = "fire"
    /\ call.k = 3
    /\ <<call.r, call.c>> \in DOMAIN acanvas.grid.c
    /\ acanvas.grid.c[<<call.r, call.c>>] = 2
    /\ Count(acanvas.grid, 1) >= 1
    /\ acanvas.grid = call.start

----------------------------------------------------------------------------
(* Cell values under the driver *)

\* C17: in every state the app reaches through its driver operations (step,
\* mouse toggle, randomize, clear, resize, model switch, pattern insert)
\* every cell of the grid is 0 or 1 while the model is Life and 0, 1 or 2
\* while it is Fire, the canvas and the app agreeing on the model.
C17_CellsInAlphabet ==
    /\ acanvas.model = app.model
    /\ \A q \in DOMAIN acanvas.grid.c :
          acanvas.grid.c[q] \in (IF app.model = "life" THEN {0, 1} ELSE {0, 1, 2})

\* the model has been switched to Life while the grid held a BURNING cell
C17_Witness ==
    /\ op = "change_model"
    /\ app.model = "life"
    /\ Count(call.grid, 2) >= 1
    /\ Count(acanvas.grid, 0) = acanvas.grid.h * acanvas.grid.w

----------------------------------------------------------------------------
(* The format of rle_encode *)

TokenValue(t) == ParseInt(Split(t, ":")[1])

TokenCount(t) == ParseInt(Split(t, ":")[2])

\* a token 'value:count' of decimal digits only
TokenIsPlain(t) ==
    LET parts == Split(t, ":")
    IN  Len(parts) = 2 /\ IsDigits(parts[1]) /\ IsDigits(parts[2])

\* the number of cells the first k tokens cover
CoveredBy(tokens, k) ==
    CountSumFrom(tokens, 1, 0) - CountSumFrom(tokens, k + 1, 0)

\* the value of the run that covers the n-th cell
RunValueAt(tokens, n) ==
    TokenValue(tokens[CHOOSE k \in 1 .. Len(tokens) :
                         CoveredBy(tokens, k - 1) < n /\ n <= CoveredBy(tokens, k)])

\* [[0,0],[1,1]]
TwoRows == [h |-> 2, w |-> 2, c |-> [p \in Cells(2, 2) |-> p[1]]]

\* C19: rle_encode scans the array in row-major order and gives its maximal
\* runs as tokens 'value:count' joined by ';': every count is positive, two
\* adjacent tokens carry different values, the counts sum to rows*cols, the
\* n-th cell in row-major order has the value of the run that covers it, and
\* [[0,0],[1,1]] gives "0:2;1:2".
C19_EncodeFormat ==
    op = "rle_encode" =>
       LET arr == call.arr
           tokens == RunTokens(ret)
       IN  /\ \A k \in 1 .. Len(tokens) :
                 TokenIsPlain(tokens[k]) /\ TokenCount(tokens[k]) > 0
           /\ \A k \in 1 .. Len(tokens) - 1 :
                 TokenValue(tokens[k]) # TokenValue(tokens[k + 1])
           /\ CountSum(ret) = arr.h * arr.w
           /\ \A p \in Cells(arr.h, arr.w) :
                 RunValueAt(tokens, p[1] * arr.w + p[2] + 1) = arr.c[p]
           /\ arr = TwoRows => ret = <<"0", ":", "2", ";", "1", ":", "2">>

\* [[0,0],[1,1]] has been encoded
C19_Witness ==
    /\ op = "rle_encode"
    /\ call.arr = TwoRows
    /\ ret = <<"0", ":", "2", ";", "1", ":", "2">>

----------------------------------------------------------------------------
(* Empty grid, empty string *)

\* C20: rle_encode of an array without cells is the empty string, and
\* rle_decode of the empty string is, for any shape, the all-zero array of
\* that shape.
C20_EmptyEncodings ==
    /\ op = "rle_encode" /\ call.arr.h * call.arr.w = 0 => ret = <<>>
    /\ op = "rle_decode" /\ call.s = <<>> =>
          /\ ret.ok
          /\ ret.grid.h = call.shape[1] /\ ret.grid.w = call.shape[2]
          /\ DOMAIN ret.grid.c = Cells(call.shape[1], call.shape[2])
          /\ \A p \in DOMAIN ret.grid.c : ret.grid.c[p] = 0

\* the empty string has been decoded to a shape of several cells
C20_Witness ==
    /\ op = "rle_decode"
    /\ call.s = <<>>
    /\ call.shape[1] * call.shape[2] >= 4
    /\ ret.ok
    /\ Count(ret.grid, 0) = call.shape[1] * call.shape[2]

----------------------------------------------------------------------------
(* Determinism of Life stepping *)

----------------------------------------------------------------------------
(* on_clear *)

\* C22: after MainWindow.on_clear, from any state, every cell of the active
\* model's grid is 0, tick is 0 and the play timer is stopped; when the
\* active model is Fire, burned_total is 0 too.
C22_OnClearResets ==
    [][op' = "on_clear" =>
         /\ win'.tick = 0
         /\ ~win'.timer
         /\ win'.model_name = win.model_name
         /\ win.model_name = "life" =>
               /\ life'.grid.h = life.grid.h /\ life'.grid.w = life.grid.w
               /\ \A q \in DOMAIN life'.grid.c : life'.grid.c[q] = 0
         /\ win.model_name = "fire" =>
               /\ fire'.grid.h = fire.grid.h /\ fire'.grid.w = fire.grid.w
               /\ \A q \in DOMAIN fire'.grid.c : fire'.grid.c[q] = 0
               /\ fire'.burned_total = 0]_vars

\* on_clear has run in Fire mode after a step, on a grid of two cells
C22_Witness ==
    /\ op = "on_clear"
    /\ win.model_name = "fire"
    /\ canvas.ref = "stale"
    /\ fire.grid.h * fire.grid.w >= 2
    /\ Count(fire.grid, 0) = fire.grid.h * fire.grid.w
    /\ fire.burned_total = 0 /\ win.tick = 0 /\ ~win.timer

----------------------------------------------------------------------------
(* The anchor of an inserted pattern *)

\* floor division of n by 2
HalfOf(n) == CHOOSE k \in 0 .. n : 2 * k <= n /\ n < 2 * (k + 1)

\* C23: a pattern of shape (r, c) inserted into a Life grid of shape
\* (rows, cols) with r <= rows and c <= cols is written with its top-left
\* entry at (rows // 2 - r // 2, cols // 2 - c // 2): every entry of the
\* pattern, true or false, is found at that offset, and the whole pattern
\* lies inside the grid.
C23_PatternAnchor ==
    [][InsertedInLife =>
         LET p == call'.p
             mr == HalfOf(app.rows) - HalfOf(p.h)
             mc == HalfOf(app.cols) - HalfOf(p.w)
         IN  /\ 0 <= mr /\ mr + p.h <= acanvas'.grid.h
             /\ 0 <= mc /\ mc + p.w <= acanvas'.grid.w
             /\ \A q \in DOMAIN p.c :
                   acanvas'.grid.c[<<mr + q[1], mc + q[2]>>] = p.c[q]]_vars

\* a pattern of one row with a true entry has been written on the middle
\* row of a grid of three rows
C23_Witness ==
    /\ op = "insert_pattern"
    /\ app.model = "life"
    /\ ret = None
    /\ call.name \in PatternNames
    /\ call.p.h = 1 /\ call.p.w = 2 /\ Count(call.p, 1) >= 1
    /\ acanvas.grid.h = 3 /\ acanvas.grid.w = 3
    /\ \E q \in DOMAIN acanvas.grid.c : q[1] = 1 /\ acanvas.grid.c[q] = 1
    /\ \A q \in DOMAIN acanvas.grid.c : q[1] # 1 => acanvas.grid.c[q] = 0

----------------------------------------------------------------------------
(* The input array of a step *)

\* C24: LifeModel.step and FireModel.step leave the array passed to them as
\* it was, and the array they return is decided cell by cell from that
\* array alone: it is the grid the rule gives when every cell is decided
\* from the prior grid, none from a value written during the step.
C24_StepLeavesInput ==
    [][/\ op' = "LifeModel.step" =>
            /\ call'.grid = call.grid
            /\ \A p \in Cells(call.grid.h, call.grid.w) :
                 LET n == MooreAlive(call.grid, p)
                     v == call.grid.c[p]
                 IN  ret'.c[p] = IF v = 1 /\ n \notin {2, 3} THEN 0
                                 ELSE IF v = 0 /\ n = 3 THEN 1
                                 ELSE v
       /\ op' = "FireModel.step" =>
            /\ call'.grid = call.grid
            /\ FireRule(call.grid, ret', draws', BoundedNeighbours)]_vars

\* a LifeModel.step that changed several cells has left its input as it
\* was: the input is the returned grid's predecessor and differs from it
C24_Witness ==
    /\ op = "LifeModel.step"
    /\ call.grid.h = 3 /\ call.grid.w = 3
    /\ Cardinality({ p \in Cells(3, 3) : ret.c[p] # call.grid.c[p] }) >= 4
    /\ ret = LifeModelStep(call.grid)

----------------------------------------------------------------------------
(* Toroidal neighbourhoods *)

\* the number of the 8 non-zero offsets (di, dj) at which the cell
\* ((i + di) mod rows, (j + dj) mod cols) of g holds v
OffsetCount(g, p, v) ==
    Cardinality({ o \in Offsets :
                    g.c[<<(p[1] + o[1]) % g.h, (p[2] + o[2]) % g.w>>] = v })

\* C25: GameOfLife.step and ForestFire.step count neighbours toroidally: the
\* neighbour of (i, j) at each of the 8 non-zero offsets (di, dj) is the
\* cell ((i + di) mod rows, (j + dj) mod cols), each offset counted once,
\* whatever the shape, shapes with a dimension below 3 included.
C25_ToroidalOffsets ==
    [][/\ op' = "GameOfLife.step" =>
            \A p \in Cells(life.h, life.w) :
                LET n == OffsetCount(life.grid, p, 1)
                IN  life'.grid.c[p] =
                      IF life.grid.c[p] = 1
                      THEN (IF n \in {2, 3} THEN 1 ELSE 0)
                      ELSE (IF n = 3 THEN 1 ELSE 0)
       /\ op' = "ForestFire.step" =>
            \A p \in { q \in Cells(fire.h, fire.w) :
                         fire.grid.c[q] = 1 /\ q \notin draws'.lightning } :
                fire'.grid.c[p] = IF OffsetCount(fire.grid, p, 2) > 0 THEN 2 ELSE 1
      ]_vars

\* a 1x3 board after a step with two births and no death: the one live cell
\* was counted twice as its own neighbour and three times as the neighbour
\* of each dead cell
C25_Witness ==
    /\ op = "GameOfLife.step"
    /\ life.h = 1 /\ life.w = 3
    /\ st.births = 2 /\ st.deaths = 0 /\ st.alive = 3

----------------------------------------------------------------------------
(* The array behind the canvas *)

\* C26: in celllab_mix_full, after any sequence of on_step, on_random,
\* on_clear, on_model_change and on_resize_grid the array the canvas draws
\* and edits (GridCanvas._grid_ref) is the array the active simulation
\* holds as its current grid, so that a mouse edit made after a step is
\* read by the next step.
C26_CanvasHoldsActiveGrid ==
    op \in {"on_step", "on_random", "on_clear", "on_model_change", "on_resize_grid"}
        => canvas.ref = win.model_name

----------------------------------------------------------------------------
(* The recorded shape *)

\* the grid of the simulation the window's model_name selects
ActiveGrid == IF win.model_name = "life" THEN life.grid ELSE fire.grid

\* C27: in celllab_mix_full, after any sequence of resizes and model
\* switches the active simulation's grid has the shape (grid_h, grid_w) the
\* main window records, so that the density update_stats_now shows divides
\* by the number of cells the active grid really has.
C27_ActiveShapeIsRecorded ==
    op \in {"on_resize_grid", "on_model_change"} =>
        /\ ActiveGrid.h = win.grid_h
        /\ ActiveGrid.w = win.grid_w

----------------------------------------------------------------------------
(* The Fire parameters *)

\* C28: in celllab_mix_full, whenever a Fire step runs, the simulation's
\* p_growth and p_lightning are the values the parameter controls hold at
\* that moment, whatever parameter changes, model switches, resizes and
\* steps came before.
C28_FireStepUsesControls ==
    [][(op' = "on_step" /\ win.model_name = "fire") =>
          /\ fire.p_growth = win.p_growth
          /\ fire.p_lightning = win.p_light]_vars

----------------------------------------------------------------------------
(* A fire without growth and lightning *)

\* the grid a run of Fire steps is at
SteppedFireGrid == IF call.fn = "FireModel.step" THEN call.grid ELSE fire.grid

NonEmpty(g) == Cardinality({ p \in Cells(g.h, g.w) : g.c[p] # 0 })

\* C29: with p_growth = 0 and p_lightning = 0, Fire stepped again and again
\* from any grid over {0, 1, 2} eventually reaches a grid with no BURNING
\* cell, and from then on every step leaves the grid unchanged; while any
\* cell is BURNING, each step strictly decreases the number of non-EMPTY
\* cells.
C29_FireDiesOut ==
    /\ <>[](Count(SteppedFireGrid, 2) = 0)
    /\ [][Count(SteppedFireGrid, 2) = 0 => SteppedFireGrid' = SteppedFireGrid]_vars
    /\ [][Count(SteppedFireGrid, 2) > 0 =>
            NonEmpty(SteppedFireGrid') < NonEmpty(SteppedFireGrid)]_vars

\* a ForestFire whose fire spread to three trees and then went out, the
\* trees that did not burn still standing or every cell empty
C29_Witness ==
    /\ op = "ForestFire.step"
    /\ fire.p_growth = 0 /\ fire.p_lightning = 0
    /\ fire.burned_total = 3
    /\ Count(fire.grid, 2) = 0

----------------------------------------------------------------------------
(* The two Life rules *)

\* the cells of the first and last row and the first and last column of g
BorderCells(g) ==
    { p \in Cells(g.h, g.w) :
        p[1] = 0 \/ p[1] = g.h - 1 \/ p[2] = 0 \/ p[2] = g.w - 1 }

\* C30: the bounded Life rule (LifeModel.step) and the toroidal Life rule
\* (GameOfLife.step) give the same next grid for every Life grid whose
\* border cells (first and last row, first and last column) are all DEAD.
C30_RulesAgreeInsideDeadBorder ==
    (/\ ret # None /\ st # None
     /\ \A p \in BorderCells(call.grid) : call.grid.c[p] = 0)
        => ret = life.grid

\* both rules applied to a 3x5 grid with a dead border and its middle row
\* alive: the births they agree on lie on the border
C30_Witness ==
    /\ ret # None /\ st # None
    /\ call.grid.h = 3 /\ call.grid.w = 5
    /\ \A p \in BorderCells(call.grid) : call.grid.c[p] = 0
    /\ \A j \in 1 .. 3 : call.grid.c[<<1, j>>] = 1
    /\ ret.c[<<0, 2>>] = 1 /\ ret.c[<<2, 2>>] = 1
    /\ life.grid.c[<<0, 2>>] = 1

=============================================================================
